---- MODULE Spec2Model ----
(***************************************************************************)
(* Model of the targeting / risk / execution core of SnipeTrackerHL:       *)
(* RiskEngine (core/riskEngine.ts), Executor (core/executor.ts) and the    *)
(* polling loop CopyTradingLoop (core/loop.ts).                            *)
(*                                                                         *)
(* Numbers are integers.  Time is the value of Date.now() in milliseconds  *)
(* and advances in quanta of TimeStep.  Sizes, prices and notionals are    *)
(* drawn from small sets of integers; the one place where IEEE-754         *)
(* rounding decides a comparison (the marginUsed fallback of the leverage  *)
(* check) is modelled by the table Ieee754RoundsAbove, computed in double  *)
(* precision for the values of the model's domains.                        *)
(***************************************************************************)
EXTENDS Integers, Sequences, FiniteSets, TLC

(***************************************************************************)
(* Bounds of the model                                                     *)
(***************************************************************************)
\* Date.now() when the RiskEngine is constructed (ms since 1970: far above
\* every cooldown and above the breaker window).
Epoch == 1000000
\* quantum by which the clock advances
TimeStep == 150000
\* number of quanta the clock may advance
MaxSteps == 3
\* cap on circuitBreaker.errorCount (the counter is unbounded in the code)
MaxErrorCount == 6
\* longest batch handed to executeOrders
MaxBatchLen == 2
\* number of executeOrders calls in one behaviour
MaxBatches == 1
\* number of retryDelayMs quanta the clock may advance while a batch runs
MaxExecSteps == 3
\* number of start() calls that start a polling loop
MaxLoops == 2
\* number of updateParams calls while ticks are followed step by step
MaxUpdates == 1

(***************************************************************************)
(* Program constants                                                       *)
(***************************************************************************)
circuitBreakerErrorThreshold == 5
circuitBreakerWindowMs == 5 * 60 * 1000
maxRetries == 3
retryDelayMs == 1000

(***************************************************************************)
(* Input domains                                                           *)
(***************************************************************************)
Coins == {"BTC", "ETH"}
Sides == {"buy", "sell"}
Sizes == {1, 2}
MarkPrices == {10, 17}
Leverages == {5, 7}
NotionalCaps == {30, 40}
Notionals == {0, 20}
CooldownValues == {0, 2 * retryDelayMs, TimeStep}

\* OrderRequest (positionModel.ts); tif and price play no part in the risk
\* checks and in the executor's bookkeeping
OrderRequest == [coin : Coins, side : Sides, size : Sizes, reduceOnly : BOOLEAN]

\* Position: the fields checkOrder reads.  marginUsed = 0 stands for a
\* missing or zero marginUsed (both falsy)
Position == [coin : Coins, size : {-1, 2}, marginUsed : {0, 2, 5}]

\* the currentPositions arrays the model passes to checkOrder; the last one
\* holds two entries for BTC (find returns the first)
PositionLists ==
  {<<>>,
   <<[coin |-> "BTC", size |-> 2, marginUsed |-> 5]>>,
   <<[coin |-> "BTC", size |-> -1, marginUsed |-> 0]>>,
   <<[coin |-> "ETH", size |-> 2, marginUsed |-> 2]>>,
   <<[coin |-> "ETH", size |-> 2, marginUsed |-> 5],
     [coin |-> "BTC", size |-> -1, marginUsed |-> 2],
     [coin |-> "BTC", size |-> 2, marginUsed |-> 0]>>}

Undefined == "undefined"

VARIABLES
  now,                  \* Date.now()
  maxLeverage,          \* RiskEngine.maxLeverage
  maxTotalNotional,     \* RiskEngine.maxTotalNotional
  cooldownMs,           \* RiskEngine.cooldownMs
  panicMode,            \* RiskEngine.panicMode
  autoTradingDisabled,  \* RiskEngine.autoTradingDisabled
  lastExecByCoin,       \* RiskEngine.lastExecByCoin : Map<string, number>
  circuitBreaker,       \* RiskEngine.circuitBreaker {errorCount, windowStart}
  execAt,               \* observer: time of the last recordExecution call per coin
  panicAsked,           \* observer: the last panic call was enablePanicMode
  errorTimes,           \* observer: times of the last recordError calls since
                        \*   construction or the last resetCircuitBreaker
  resetAt,              \* observer: time of construction or of the last reset
  dryRunLogOnly,        \* Executor.dryRunLogOnly
  counters,             \* Executor.counters {execCount, rejectCount, errorCount}
  call,                 \* executeOrders' arguments: orders, currentPositions,
                        \*   currentTotalNotional, marketData
  result,               \* executeOrders' result: ExecutionResult
  execPc,               \* where executeOrders stands: idle, order (at the head
                        \*   of the for loop), placing (awaiting placeOrder),
                        \*   backoff (awaiting sleep), returned
  orderIdx,             \* index in orders of the order being processed
  attempt,              \* executeWithRetry's attempt
  lastError,            \* executeWithRetry's lastError
  wakeAt,               \* time at which the pending sleep(delay) is over
  batches,              \* observer: number of executeOrders calls so far
  checkedCap,           \* observer: per executed order, maxTotalNotional at
                        \*   the time of its risk check
  running,              \* CopyTradingLoop.running
  enabled,              \* CopyTradingLoop.enabled
  ratio,                \* CopyTradingLoop.ratio
  notionalCap,          \* CopyTradingLoop.notionalCap
  tif,                  \* CopyTradingLoop.tif
  leaderAddresses,      \* CopyTradingLoop.leaderAddresses
  copyMode,             \* CopyTradingLoop.copyMode
  loops,                \* per start() call that passed the guard, where its
                        \*   while loop stands: none (not started), tick
                        \*   (awaiting tick()), sleep (awaiting sleep()), done
  tick,                 \* the tick() call in flight: where it stands (none,
                        \*   leaders, follower, market, account, executing,
                        \*   returned, threw) and its local variables
  previousLeaderPositions,  \* CopyTradingLoop.previousLeaderPositions
  tickLog,              \* observer: the parameters in force when the tick
                        \*   began, the fetches of the tick that failed,
                        \*   whether disable() was called during the tick, and
                        \*   whether a tick has thrown so far
  trace,                \* observer: what the executor did with each order, in
                        \*   order: local skips, checkOrder calls and their
                        \*   answers, placeOrder calls and their outcomes,
                        \*   sleeps, exceptions caught
  countersAtCall,       \* observer: Executor.counters when the executeOrders
                        \*   call in progress (or the last one) began
  returnedCounters,     \* the object the last getCounters() call returned, as
                        \*   its caller holds it
  pure,                 \* a call of a function of Targeting or Aggregator:
                        \*   its name, its arguments and what it returned
  botLog,               \* observer: the last command the Telegram bot
                        \*   received, whether its chat is whitelisted, and
                        \*   whether /panic was obeyed since the last /on
  store                 \* StateStore: state (the fields leaders and copyMode),
                        \*   persistEnabled, the state file on disk, and
                        \*   (observer) the last set() call

engineVars == <<maxLeverage, maxTotalNotional, cooldownMs, panicMode,
                autoTradingDisabled, lastExecByCoin, circuitBreaker>>
observerVars == <<execAt, panicAsked, errorTimes, resetAt>>
execVars == <<dryRunLogOnly, counters, call, result, execPc, orderIdx, attempt,
              lastError, wakeAt, batches, checkedCap>>
tickVars == <<tick, previousLeaderPositions, tickLog>>
loopVars == <<running, enabled, ratio, notionalCap, tif, leaderAddresses,
              copyMode, loops, tickVars>>
surfaceVars == <<botLog, store>>
probeVars == <<countersAtCall, returnedCounters, pure, surfaceVars>>
vars == <<now, engineVars, observerVars, execVars, loopVars, trace, probeVars>>

(***************************************************************************)
(* Helpers                                                                 *)
(***************************************************************************)
Abs(x) == IF x < 0 THEN -x ELSE x

\* Map.get(key) || 0
GetOrZero(map, key) == IF key \in DOMAIN map THEN map[key] ELSE 0

\* Map.set(key, value)
MapSet(map, key, value) ==
  [k \in DOMAIN map \cup {key} |-> IF k = key THEN value ELSE map[k]]

\* Array.prototype.find(p => p.coin === coin): <<the first match>>, or <<>>
\* for undefined
FindPosition(positions, coin) ==
  LET idx == {i \in 1..Len(positions) : positions[i].coin = coin}
  IN IF idx = {} THEN <<>>
     ELSE <<positions[CHOOSE i \in idx : \A j \in idx : i <= j]>>

(***************************************************************************)
(* RiskEngine.checkOrder                                                   *)
(***************************************************************************)
ReasonPanic == "PANIC mode active - only reduce-only orders allowed"
ReasonBreaker == "Auto-trading disabled by circuit breaker"
ReasonCooldown == "Cooldown active for <coin> (<n>ms remaining)"
ReasonNotional == "Max total notional exceeded: <projected> > <max>"
ReasonLeverage == "Max leverage exceeded for <coin>: <projected> > <max>"

\* String.prototype.includes on the reason strings above, for the words the
\* callers and the tests look for
includes(reason, word) ==
  <<reason, word>> \in {<<ReasonPanic, "PANIC">>,
                        <<ReasonBreaker, "circuit breaker">>,
                        <<ReasonCooldown, "Cooldown">>,
                        <<ReasonNotional, "notional">>,
                        <<ReasonLeverage, "leverage">>}

\* The pairs <<newNotional, maxLeverage>> of the model's domains for which
\* newNotional / (newNotional / maxLeverage), evaluated in IEEE-754 doubles,
\* is greater than maxLeverage (e.g. 17 / (17 / 7) = 7.000000000000001).
Ieee754RoundsAbove == {<<17, 7>>, <<34, 7>>, <<68, 7>>}

\* 1. PANIC mode check: this.panicMode && !order.reduceOnly
PanicCheckFails(order) == panicMode /\ ~order.reduceOnly

\* 2. circuit breaker: this.autoTradingDisabled && !order.reduceOnly
BreakerCheckFails(order) == autoTradingDisabled /\ ~order.reduceOnly

\* 3. cooldown: Date.now() - (lastExecByCoin.get(coin) || 0) < cooldownMs
CooldownCheckFails_Leq(order) ==
  now - GetOrZero(lastExecByCoin, order.coin) <= cooldownMs

CooldownCheckFails(order) ==
  now - GetOrZero(lastExecByCoin, order.coin) < cooldownMs

\* 4. max total notional, skipped for reduce-only orders
NotionalCheckFails_Geq(order, currentTotalNotional, markPrice) ==
  /\ ~order.reduceOnly
  /\ currentTotalNotional + order.size * markPrice >= maxTotalNotional

NotionalCheckFails_ReduceOnlyToo(order, currentTotalNotional, markPrice) ==
  currentTotalNotional + order.size * markPrice > maxTotalNotional

NotionalCheckFails(order, currentTotalNotional, markPrice) ==
  /\ ~order.reduceOnly
  /\ LET orderNotional == order.size * markPrice
         projectedTotalNotional == currentTotalNotional + orderNotional
     IN projectedTotalNotional > maxTotalNotional

\* 5. max leverage (approximate), skipped for reduce-only orders:
\*    projectedLeverage > this.maxLeverage, with
\*    marginUsed = currentPosition?.marginUsed || newNotional / this.maxLeverage
LeverageCheckFails(order, currentPositions, markPrice) ==
  /\ ~order.reduceOnly
  /\ LET currentPosition == FindPosition(currentPositions, order.coin)
         currentSize == IF currentPosition = <<>> THEN 0
                        ELSE currentPosition[1].size
         newSize == IF order.side = "buy" THEN currentSize + order.size
                                          ELSE currentSize - order.size
         newNotional == Abs(newSize) * markPrice
     IN IF currentPosition # <<>> /\ currentPosition[1].marginUsed # 0
          THEN newNotional > maxLeverage * currentPosition[1].marginUsed
          ELSE <<newNotional, maxLeverage>> \in Ieee754RoundsAbove

RiskCheckResult(allowed, reason) == [allowed |-> allowed, reason |-> reason]

checkOrder_CooldownFirst(order, currentPositions, currentTotalNotional, markPrice) ==
  IF CooldownCheckFails(order) THEN RiskCheckResult(FALSE, ReasonCooldown)
  ELSE IF PanicCheckFails(order) THEN RiskCheckResult(FALSE, ReasonPanic)
  ELSE IF BreakerCheckFails(order) THEN RiskCheckResult(FALSE, ReasonBreaker)
  ELSE IF NotionalCheckFails(order, currentTotalNotional, markPrice)
    THEN RiskCheckResult(FALSE, ReasonNotional)
  ELSE IF LeverageCheckFails(order, currentPositions, markPrice)
    THEN RiskCheckResult(FALSE, ReasonLeverage)
  ELSE RiskCheckResult(TRUE, Undefined)

checkOrder_BreakerFirst(order, currentPositions, currentTotalNotional, markPrice) ==
  IF BreakerCheckFails(order) THEN RiskCheckResult(FALSE, ReasonBreaker)
  ELSE IF PanicCheckFails(order) THEN RiskCheckResult(FALSE, ReasonPanic)
  ELSE IF CooldownCheckFails(order) THEN RiskCheckResult(FALSE, ReasonCooldown)
  ELSE IF NotionalCheckFails(order, currentTotalNotional, markPrice)
    THEN RiskCheckResult(FALSE, ReasonNotional)
  ELSE IF LeverageCheckFails(order, currentPositions, markPrice)
    THEN RiskCheckResult(FALSE, ReasonLeverage)
  ELSE RiskCheckResult(TRUE, Undefined)

checkOrder(order, currentPositions, currentTotalNotional, markPrice) ==
  IF PanicCheckFails(order) THEN RiskCheckResult(FALSE, ReasonPanic)
  ELSE IF BreakerCheckFails(order) THEN RiskCheckResult(FALSE, ReasonBreaker)
  ELSE IF CooldownCheckFails(order) THEN RiskCheckResult(FALSE, ReasonCooldown)
  ELSE IF NotionalCheckFails(order, currentTotalNotional, markPrice)
    THEN RiskCheckResult(FALSE, ReasonNotional)
  ELSE IF LeverageCheckFails(order, currentPositions, markPrice)
    THEN RiskCheckResult(FALSE, ReasonLeverage)
  ELSE RiskCheckResult(TRUE, Undefined)

(***************************************************************************)
(* RiskEngine: constructor and mutators                                    *)
(***************************************************************************)
RiskEngineInit ==
  /\ maxLeverage \in Leverages
  /\ maxTotalNotional \in NotionalCaps
  /\ cooldownMs \in CooldownValues
  /\ panicMode = FALSE
  /\ autoTradingDisabled = FALSE
  /\ lastExecByCoin = <<>>
  /\ circuitBreaker = [errorCount |-> 0, windowStart |-> now]

recordExecution_AllCoins(coin) ==
  /\ lastExecByCoin' = [c \in Coins |-> now]
  /\ UNCHANGED <<maxLeverage, maxTotalNotional, cooldownMs, panicMode,
                 autoTradingDisabled, circuitBreaker>>

recordExecution(coin) ==
  /\ lastExecByCoin' = MapSet(lastExecByCoin, coin, now)
  /\ UNCHANGED <<maxLeverage, maxTotalNotional, cooldownMs, panicMode,
                 autoTradingDisabled, circuitBreaker>>

recordError_AutoReset ==
  LET expired == now - circuitBreaker.windowStart > circuitBreakerWindowMs
      count == (IF expired THEN 0 ELSE circuitBreaker.errorCount) + 1
      start == IF expired THEN now ELSE circuitBreaker.windowStart
  IN /\ circuitBreaker.errorCount < MaxErrorCount
     /\ circuitBreaker' = [errorCount |-> count, windowStart |-> start]
     /\ autoTradingDisabled' =
          IF count >= circuitBreakerErrorThreshold THEN TRUE
          ELSE IF expired THEN FALSE ELSE autoTradingDisabled
     /\ UNCHANGED <<maxLeverage, maxTotalNotional, cooldownMs, panicMode,
                    lastExecByCoin>>

recordError ==
  LET expired == now - circuitBreaker.windowStart > circuitBreakerWindowMs
      count == (IF expired THEN 0 ELSE circuitBreaker.errorCount) + 1
      start == IF expired THEN now ELSE circuitBreaker.windowStart
  IN /\ circuitBreaker.errorCount < MaxErrorCount
     /\ circuitBreaker' = [errorCount |-> count, windowStart |-> start]
     /\ autoTradingDisabled' =
          IF count >= circuitBreakerErrorThreshold THEN TRUE ELSE autoTradingDisabled
     /\ UNCHANGED <<maxLeverage, maxTotalNotional, cooldownMs, panicMode,
                    lastExecByCoin>>

enablePanicMode ==
  /\ panicMode' = TRUE
  /\ UNCHANGED <<maxLeverage, maxTotalNotional, cooldownMs, autoTradingDisabled,
                 lastExecByCoin, circuitBreaker>>

disablePanicMode_KeepsFlag ==
  UNCHANGED <<panicMode, maxLeverage, maxTotalNotional, cooldownMs,
              autoTradingDisabled, lastExecByCoin, circuitBreaker>>

disablePanicMode ==
  /\ panicMode' = FALSE
  /\ UNCHANGED <<maxLeverage, maxTotalNotional, cooldownMs, autoTradingDisabled,
                 lastExecByCoin, circuitBreaker>>

resetCircuitBreaker_KeepsCount ==
  /\ autoTradingDisabled' = FALSE
  /\ circuitBreaker' = [circuitBreaker EXCEPT !.windowStart = now]
  /\ UNCHANGED <<maxLeverage, maxTotalNotional, cooldownMs, panicMode,
                 lastExecByCoin>>

resetCircuitBreaker ==
  /\ autoTradingDisabled' = FALSE
  /\ circuitBreaker' = [errorCount |-> 0, windowStart |-> now]
  /\ UNCHANGED <<maxLeverage, maxTotalNotional, cooldownMs, panicMode,
                 lastExecByCoin>>

\* the params objects: a field that is absent from the domain is undefined
RiskParamValues(field) ==
  CASE field = "maxLeverage" -> Leverages
    [] field = "maxTotalNotional" -> NotionalCaps
    [] field = "cooldownMs" -> CooldownValues

RiskParams ==
  UNION {{p \in [fields -> Leverages \cup NotionalCaps \cup CooldownValues] :
            \A f \in fields : p[f] \in RiskParamValues(f)} :
         fields \in SUBSET {"maxLeverage", "maxTotalNotional", "cooldownMs"}}

\* variant: the params object replaces the limits, a field that is absent
\* becoming 0
updateRiskParams_Replaces(params) ==
  /\ maxLeverage' =
       IF "maxLeverage" \in DOMAIN params THEN params.maxLeverage ELSE maxLeverage
  /\ maxTotalNotional' =
       IF "maxTotalNotional" \in DOMAIN params THEN params.maxTotalNotional
                                               ELSE maxTotalNotional
  /\ cooldownMs' = IF "cooldownMs" \in DOMAIN params THEN params.cooldownMs ELSE 0
  /\ UNCHANGED <<panicMode, autoTradingDisabled, lastExecByCoin, circuitBreaker>>

updateRiskParams(params) ==
  /\ maxLeverage' =
       IF "maxLeverage" \in DOMAIN params THEN params.maxLeverage ELSE maxLeverage
  /\ maxTotalNotional' =
       IF "maxTotalNotional" \in DOMAIN params THEN params.maxTotalNotional
                                               ELSE maxTotalNotional
  /\ cooldownMs' =
       IF "cooldownMs" \in DOMAIN params THEN params.cooldownMs ELSE cooldownMs
  /\ UNCHANGED <<panicMode, autoTradingDisabled, lastExecByCoin, circuitBreaker>>

\* variant: the remaining time without the floor at 0
getCooldownRemaining_NoFloor(coin) ==
  cooldownMs - (now - GetOrZero(lastExecByCoin, coin))

\* RiskEngine.getCooldownRemaining: Math.max(0, this.cooldownMs - elapsed)
getCooldownRemaining(coin) ==
  LET lastExec == GetOrZero(lastExecByCoin, coin)
      elapsed == now - lastExec
  IN IF cooldownMs - elapsed > 0 THEN cooldownMs - elapsed ELSE 0

\* the passage of time: Date.now() grows by delta, up to Epoch + horizon
Elapse(delta, horizon) ==
  /\ now + delta <= Epoch + horizon
  /\ now' = now + delta

Advance == Elapse(TimeStep, MaxSteps * TimeStep)

NoTime == 0 - 1

(***************************************************************************)
(* CopyTradingLoop (core/loop.ts): start, stop, enable, disable,           *)
(* updateParams and the while loop of start()                              *)
(***************************************************************************)
Ratios == {1, 2}
LoopNotionalCaps == {0, 20}
Tifs == {"IOC", "GTC"}
CopyModes == {"full", "entry-only", "signals-only"}
LeaderLists == {<<>>, <<"leader1">>, <<"leader1", "leader2">>}

LoopIds == 1..MaxLoops

\* no tick() call is in flight
NoTick ==
  [pc |-> "none", toFetch |-> <<>>, leaderPositionsMap |-> <<>>,
   followerPositions |-> <<>>, targets |-> <<>>, marketData |-> <<>>,
   allOrders |-> <<>>]

NoTickLog ==
  [began |-> <<>>, failedLeaders |-> {}, followerFailed |-> FALSE,
   disabledInFlight |-> FALSE, updates |-> 0, threw |-> FALSE]

LoopInit ==
  /\ enabled = FALSE
  /\ running = FALSE
  /\ ratio \in Ratios
  /\ notionalCap \in LoopNotionalCaps
  /\ tif = "IOC"
  /\ leaderAddresses = <<"leader1">>
  /\ copyMode = "full"
  /\ loops = [l \in LoopIds |-> "none"]
  /\ tick = NoTick
  /\ previousLeaderPositions = <<>>
  /\ tickLog = NoTickLog

\* variant: the loop calls tick() whatever enabled is
Iteration_IgnoresEnabled == "tick"

\* the body of the while loop up to its first await: a tick if enabled, and
\* the sleep otherwise
Iteration == IF enabled THEN "tick" ELSE "sleep"

\* start() while running: 'Loop already running', return
startWhileRunning ==
  /\ running
  /\ UNCHANGED loopVars

\* start() while not running: sets running and enters the while loop
start ==
  /\ ~running
  /\ \E l \in LoopIds :
       /\ loops[l] = "none"
       /\ \A k \in LoopIds : k < l => loops[k] # "none"
       /\ running' = TRUE
       /\ loops' = [loops EXCEPT ![l] = Iteration]
  /\ UNCHANGED <<enabled, ratio, notionalCap, tif, leaderAddresses, copyMode>>

stop ==
  /\ running' = FALSE
  /\ UNCHANGED <<enabled, ratio, notionalCap, tif, leaderAddresses, copyMode, loops>>

enable ==
  /\ enabled' = TRUE
  /\ UNCHANGED <<running, ratio, notionalCap, tif, leaderAddresses, copyMode, loops>>

disable ==
  /\ enabled' = FALSE
  /\ UNCHANGED <<running, ratio, notionalCap, tif, leaderAddresses, copyMode, loops>>

\* an optional field of a params object: <<>> is undefined, <<v>> is v
Optional(values) == {<<>>} \cup {<<v>> : v \in values}

LoopParams ==
  [ratio : Optional(Ratios), notionalCap : Optional(LoopNotionalCaps),
   tif : Optional(Tifs), leaderAddresses : Optional(LeaderLists),
   copyMode : Optional(CopyModes)]

updateParams(params) ==
  /\ ratio' = IF params.ratio # <<>> THEN params.ratio[1] ELSE ratio
  /\ notionalCap' =
       IF params.notionalCap # <<>> THEN params.notionalCap[1] ELSE notionalCap
  /\ tif' = IF params.tif # <<>> THEN params.tif[1] ELSE tif
  /\ leaderAddresses' =
       IF params.leaderAddresses # <<>> THEN params.leaderAddresses[1]
                                        ELSE leaderAddresses
  /\ copyMode' = IF params.copyMode # <<>> THEN params.copyMode[1] ELSE copyMode
  /\ UNCHANGED <<running, enabled, loops>>

\* variant: an exception of the tick ends the loop
TickSettles_ThrowStops(l) ==
  /\ loops[l] = "tick"
  /\ loops' = [loops EXCEPT ![l] = IF tick.pc = "threw" THEN "done" ELSE "sleep"]
  /\ running' = (running /\ tick.pc # "threw")
  /\ UNCHANGED <<enabled, ratio, notionalCap, tif, leaderAddresses, copyMode>>

\* await this.tick() settles (tick returned, or threw and the catch logged
\* it): the loop goes on to await this.sleep(pollIntervalMs)
TickSettles(l) ==
  /\ loops[l] = "tick"
  /\ loops' = [loops EXCEPT ![l] = "sleep"]
  /\ UNCHANGED <<running, enabled, ratio, notionalCap, tif, leaderAddresses,
                 copyMode>>

\* variant: the while loop does not look at running
LoopWakes_IgnoresRunning(l) ==
  /\ loops[l] = "sleep"
  /\ loops' = [loops EXCEPT ![l] = Iteration]
  /\ UNCHANGED <<running, enabled, ratio, notionalCap, tif, leaderAddresses,
                 copyMode>>

\* the sleep is over: while (this.running) is evaluated again
LoopWakes(l) ==
  /\ loops[l] = "sleep"
  /\ loops' = [loops EXCEPT ![l] = IF running THEN Iteration ELSE "done"]
  /\ UNCHANGED <<running, enabled, ratio, notionalCap, tif, leaderAddresses,
                 copyMode>>

LoopIdle == UNCHANGED loopVars

\* no executeOrders, getCounters, Targeting or Aggregator call has been made
NoCall == [op |-> "none"]
\* the bot has received no command
NoCommand == [last |-> "none", authorized |-> FALSE, panicked |-> FALSE]
\* no state file.  A state file is what existsSync and JSON.parse make of
\* it: its status, and the fields of the object parsed (<<>> is a missing
\* field, <<v>> the value v)
NoFile == [status |-> "ENOENT", leaders |-> <<>>, copyMode |-> <<>>]
\* no set() call yet
NoSet == [key |-> "none", leaders |-> <<>>, copyMode |-> "", written |-> FALSE]
\* a StateStore constructed with no state file, before any set()
NoStore ==
  [state |-> [leaders |-> <<>>, copyMode |-> "entry-only"],
   persistEnabled |-> TRUE, file |-> NoFile, lastSet |-> NoSet]
ProbeInit ==
  /\ countersAtCall = <<>>
  /\ returnedCounters =
       [ref |-> "none",
        value |-> [execCount |-> 0, rejectCount |-> 0, errorCount |-> 0]]
  /\ pure = NoCall
  /\ botLog = NoCommand
  /\ store = NoStore

(***************************************************************************)
(* Executor (core/executor.ts)                                             *)
(***************************************************************************)
\* the orders the model hands to executeOrders
ExecOrders ==
  {[coin |-> "BTC", side |-> "buy", size |-> 2, reduceOnly |-> FALSE],
   [coin |-> "ETH", side |-> "buy", size |-> 1, reduceOnly |-> FALSE],
   [coin |-> "BTC", side |-> "buy", size |-> 1, reduceOnly |-> FALSE],
   [coin |-> "BTC", side |-> "sell", size |-> 1, reduceOnly |-> TRUE]}

Batches == UNION {[1..n -> ExecOrders] : n \in 0..MaxBatchLen}

\* the currentPositions arrays the model hands to executeOrders
ExecPositionLists == {<<>>}

\* the marketData maps the model hands to executeOrders: coin -> market; in
\* the first ETH has lastPrice only, in the second ETH has no entry
MarketDatas ==
  {[c \in Coins |-> [markPrice |-> IF c = "BTC" THEN 10 ELSE 0, lastPrice |-> 17]],
   [c \in {"BTC"} |-> [markPrice |-> 17, lastPrice |-> 0]]}

\* market?.markPrice || market?.lastPrice || 0
MarkPriceOf(marketData, coin) ==
  IF coin \notin DOMAIN marketData THEN 0
  ELSE IF marketData[coin].markPrice # 0 THEN marketData[coin].markPrice
  ELSE marketData[coin].lastPrice

NoMarketPrice == "No market price available"
ExchangeError == "<error of the exchange>"
ExchangeException == "<message of the exception placeOrder threw>"
UnexpectedException == "<message of an unexpected exception>"

NewExecutionResult ==
  [success |-> TRUE, executedOrders |-> <<>>, rejectedOrders |-> <<>>,
   errors |-> <<>>]

ExecutorInit ==
  /\ dryRunLogOnly \in BOOLEAN
  /\ counters = [execCount |-> 0, rejectCount |-> 0, errorCount |-> 0]
  /\ call = [orders |-> <<>>, currentPositions |-> <<>>,
             currentTotalNotional |-> 0, marketData |-> <<>>]
  /\ result = NewExecutionResult
  /\ execPc = "idle"
  /\ orderIdx = 0
  /\ attempt = 0
  /\ lastError = ""
  /\ wakeAt = 0
  /\ batches = 0
  /\ checkedCap = <<>>

\* riskEngine.recordExecution(coin) as the executor calls it
ExecRecordExecution(coin) ==
  /\ recordExecution(coin)
  /\ execAt' = [execAt EXCEPT ![coin] = now]
  /\ UNCHANGED <<panicAsked, errorTimes, resetAt>>

\* riskEngine.recordError() as the executor calls it
ExecRecordError ==
  /\ recordError
  /\ UNCHANGED observerVars

\* the for loop moves on to the next order, or executeOrders returns result
Continue ==
  IF orderIdx < Len(call.orders)
    THEN orderIdx' = orderIdx + 1 /\ execPc' = "order"
    ELSE orderIdx' = orderIdx /\ execPc' = "idle"

\* executeOrders(orders, currentPositions, currentTotalNotional, marketData):
\* the call, up to the head of the for loop
executeOrders(orders, currentPositions, currentTotalNotional, marketData) ==
  /\ execPc = "idle"
  /\ batches < MaxBatches
  /\ batches' = batches + 1
  /\ call' = [orders |-> orders, currentPositions |-> currentPositions,
              currentTotalNotional |-> currentTotalNotional,
              marketData |-> marketData]
  /\ result' = NewExecutionResult
  /\ checkedCap' = <<>>
  /\ IF orders = <<>> THEN orderIdx' = 0 /\ execPc' = "idle"
                      ELSE orderIdx' = 1 /\ execPc' = "order"
  /\ UNCHANGED <<now, engineVars, observerVars, dryRunLogOnly, counters, attempt,
                 lastError, wakeAt>>

\* markPrice === 0: the order is skipped locally
SkipNoPrice ==
  /\ execPc = "order"
  /\ MarkPriceOf(call.marketData, call.orders[orderIdx].coin) = 0
  /\ result' = [result EXCEPT !.rejectedOrders =
                  Append(@, [order |-> orderIdx, reason |-> NoMarketPrice])]
  /\ counters' = [counters EXCEPT !.rejectCount = @ + 1]
  /\ Continue
  /\ UNCHANGED <<now, engineVars, observerVars, dryRunLogOnly, call, attempt,
                 lastError, wakeAt, batches, checkedCap>>

\* variant: a risk rejection is counted as an error
RejectByRisk_CountsError ==
  /\ execPc = "order"
  /\ LET order == call.orders[orderIdx]
         markPrice == MarkPriceOf(call.marketData, order.coin)
         riskCheck == checkOrder(order, call.currentPositions,
                                 call.currentTotalNotional, markPrice)
     IN /\ markPrice # 0
        /\ ~riskCheck.allowed
        /\ result' = [result EXCEPT !.rejectedOrders =
                        Append(@, [order |-> orderIdx, reason |-> riskCheck.reason]),
                                    !.success = FALSE]
  /\ ExecRecordError
  /\ counters' = [counters EXCEPT !.rejectCount = @ + 1, !.errorCount = @ + 1]
  /\ Continue
  /\ UNCHANGED <<now, dryRunLogOnly, call, attempt, lastError, wakeAt, batches,
                 checkedCap>>

\* variant: a rejected order starts the cooldown of its instrument
RejectByRisk_StartsCooldown ==
  /\ execPc = "order"
  /\ LET order == call.orders[orderIdx]
         markPrice == MarkPriceOf(call.marketData, order.coin)
         riskCheck == checkOrder(order, call.currentPositions,
                                 call.currentTotalNotional, markPrice)
     IN /\ markPrice # 0
        /\ ~riskCheck.allowed
        /\ result' = [result EXCEPT !.rejectedOrders =
                        Append(@, [order |-> orderIdx, reason |-> riskCheck.reason])]
        /\ ExecRecordExecution(order.coin)
  /\ counters' = [counters EXCEPT !.rejectCount = @ + 1]
  /\ Continue
  /\ UNCHANGED <<now, dryRunLogOnly, call, attempt, lastError, wakeAt, batches,
                 checkedCap>>

\* !riskCheck.allowed: the order is rejected with the risk reason
RejectByRisk ==
  /\ execPc = "order"
  /\ LET order == call.orders[orderIdx]
         markPrice == MarkPriceOf(call.marketData, order.coin)
         riskCheck == checkOrder(order, call.currentPositions,
                                 call.currentTotalNotional, markPrice)
     IN /\ markPrice # 0
        /\ ~riskCheck.allowed
        /\ result' = [result EXCEPT !.rejectedOrders =
                        Append(@, [order |-> orderIdx, reason |-> riskCheck.reason])]
  /\ counters' = [counters EXCEPT !.rejectCount = @ + 1]
  /\ Continue
  /\ UNCHANGED <<now, engineVars, observerVars, dryRunLogOnly, call, attempt,
                 lastError, wakeAt, batches, checkedCap>>

\* variant: a dry-run execution leaves no cooldown
ExecuteDryRun_NoCooldown ==
  /\ execPc = "order"
  /\ dryRunLogOnly
  /\ LET order == call.orders[orderIdx]
         markPrice == MarkPriceOf(call.marketData, order.coin)
         riskCheck == checkOrder(order, call.currentPositions,
                                 call.currentTotalNotional, markPrice)
     IN /\ markPrice # 0
        /\ riskCheck.allowed
  /\ result' = [result EXCEPT !.executedOrders = Append(@, [order |-> orderIdx])]
  /\ counters' = [counters EXCEPT !.execCount = @ + 1]
  /\ checkedCap' = MapSet(checkedCap, orderIdx, maxTotalNotional)
  /\ Continue
  /\ UNCHANGED <<now, engineVars, observerVars, dryRunLogOnly, call, attempt,
                 lastError, wakeAt, batches>>

\* the order passed the risk check in dry-run mode: reported as executed
\* without a placeOrder call, and the cooldown is recorded
ExecuteDryRun ==
  /\ execPc = "order"
  /\ dryRunLogOnly
  /\ LET order == call.orders[orderIdx]
         markPrice == MarkPriceOf(call.marketData, order.coin)
         riskCheck == checkOrder(order, call.currentPositions,
                                 call.currentTotalNotional, markPrice)
     IN /\ markPrice # 0
        /\ riskCheck.allowed
        /\ ExecRecordExecution(order.coin)
  /\ result' = [result EXCEPT !.executedOrders = Append(@, [order |-> orderIdx])]
  /\ counters' = [counters EXCEPT !.execCount = @ + 1]
  /\ checkedCap' = MapSet(checkedCap, orderIdx, maxTotalNotional)
  /\ Continue
  /\ UNCHANGED <<now, dryRunLogOnly, call, attempt, lastError, wakeAt, batches>>

\* the order passed the risk check: executeWithRetry starts its first attempt
\* and awaits placeOrder
Submit ==
  /\ execPc = "order"
  /\ ~dryRunLogOnly
  /\ LET order == call.orders[orderIdx]
         markPrice == MarkPriceOf(call.marketData, order.coin)
         riskCheck == checkOrder(order, call.currentPositions,
                                 call.currentTotalNotional, markPrice)
     IN markPrice # 0 /\ riskCheck.allowed
  /\ execPc' = "placing"
  /\ attempt' = 1
  /\ lastError' = ""
  /\ checkedCap' = MapSet(checkedCap, orderIdx, maxTotalNotional)
  /\ UNCHANGED <<now, engineVars, observerVars, dryRunLogOnly, counters, call,
                 result, orderIdx, wakeAt, batches>>

\* an exception nothing anticipated, thrown while the order is processed, is
\* caught per order
CatchUnexpected ==
  /\ execPc = "order"
  /\ result' = [result EXCEPT !.errors = Append(@, UnexpectedException),
                              !.success = FALSE]
  /\ ExecRecordError
  /\ counters' = [counters EXCEPT !.errorCount = @ + 1]
  /\ Continue
  /\ UNCHANGED <<now, dryRunLogOnly, call, attempt, lastError, wakeAt, batches,
                 checkedCap>>

\* variant: a live execution leaves no cooldown
PlaceOrderSucceeds_NoCooldown ==
  /\ execPc = "placing"
  /\ result' = [result EXCEPT !.executedOrders = Append(@, [order |-> orderIdx])]
  /\ counters' = [counters EXCEPT !.execCount = @ + 1]
  /\ Continue
  /\ UNCHANGED <<now, engineVars, observerVars, dryRunLogOnly, call, attempt,
                 lastError, wakeAt, batches, checkedCap>>

\* placeOrder returned success: true
PlaceOrderSucceeds ==
  /\ execPc = "placing"
  /\ result' = [result EXCEPT !.executedOrders = Append(@, [order |-> orderIdx])]
  /\ ExecRecordExecution(call.orders[orderIdx].coin)
  /\ counters' = [counters EXCEPT !.execCount = @ + 1]
  /\ Continue
  /\ UNCHANGED <<now, dryRunLogOnly, call, attempt, lastError, wakeAt, batches,
                 checkedCap>>

\* variant: every failed attempt is reported to the risk engine
PlaceOrderFailsRetry_RecordsError(error) ==
  /\ execPc = "placing"
  /\ attempt < maxRetries
  /\ lastError' = error
  /\ wakeAt' = now + retryDelayMs * 2 ^ (attempt - 1)
  /\ execPc' = "backoff"
  /\ ExecRecordError
  /\ counters' = [counters EXCEPT !.errorCount = @ + 1]
  /\ UNCHANGED <<now, dryRunLogOnly, call, result, orderIdx, attempt, batches,
                 checkedCap>>

\* variant: a failed attempt is retried whatever the attempt number
PlaceOrderFailsRetry_NoCap(error) ==
  /\ execPc = "placing"
  /\ lastError' = error
  /\ wakeAt' = now + retryDelayMs * 2 ^ (attempt - 1)
  /\ execPc' = "backoff"
  /\ UNCHANGED <<now, engineVars, observerVars, dryRunLogOnly, counters, call,
                 result, orderIdx, attempt, batches, checkedCap>>

\* placeOrder returned a non-success result or threw, and attempts are left:
\* sleep(retryDelayMs * 2^(attempt - 1))
PlaceOrderFailsRetry(error) ==
  /\ execPc = "placing"
  /\ attempt < maxRetries
  /\ lastError' = error
  /\ wakeAt' = now + retryDelayMs * 2 ^ (attempt - 1)
  /\ execPc' = "backoff"
  /\ UNCHANGED <<now, engineVars, observerVars, dryRunLogOnly, counters, call,
                 result, orderIdx, attempt, batches, checkedCap>>

\* variant: the exhausted order ends the batch
PlaceOrderFailsLast_Aborts(error) ==
  /\ execPc = "placing"
  /\ attempt >= maxRetries
  /\ lastError' = error
  /\ result' = [result EXCEPT !.errors = Append(@, error), !.success = FALSE]
  /\ ExecRecordError
  /\ counters' = [counters EXCEPT !.errorCount = @ + 1]
  /\ orderIdx' = orderIdx /\ execPc' = "idle"
  /\ UNCHANGED <<now, dryRunLogOnly, call, attempt, wakeAt, batches, checkedCap>>

\* the last attempt failed: executeWithRetry returns {success: false, error}
\* and executeOrders records the error
PlaceOrderFailsLast(error) ==
  /\ execPc = "placing"
  /\ attempt >= maxRetries
  /\ lastError' = error
  /\ result' = [result EXCEPT !.errors = Append(@, error), !.success = FALSE]
  /\ ExecRecordError
  /\ counters' = [counters EXCEPT !.errorCount = @ + 1]
  /\ Continue
  /\ UNCHANGED <<now, dryRunLogOnly, call, attempt, wakeAt, batches, checkedCap>>

\* the sleep between two attempts is over: the next attempt calls placeOrder
SleepDone ==
  /\ execPc = "backoff"
  /\ now >= wakeAt
  /\ attempt' = attempt + 1
  /\ execPc' = "placing"
  /\ UNCHANGED <<now, engineVars, observerVars, dryRunLogOnly, counters, call,
                 result, orderIdx, lastError, wakeAt, batches, checkedCap>>

resetCounters ==
  /\ counters' = [execCount |-> 0, rejectCount |-> 0, errorCount |-> 0]
  /\ UNCHANGED <<now, engineVars, observerVars, dryRunLogOnly, call, result,
                 execPc, orderIdx, attempt, lastError, wakeAt, batches, checkedCap>>

\* executeOrders is not running its synchronous code: other callers (the
\* operator's commands) run only then
AtAwait == execPc \in {"idle", "placing", "backoff"}

ExecFrame == UNCHANGED <<now, dryRunLogOnly, counters, call, result, execPc,
                         orderIdx, attempt, lastError, wakeAt, batches, checkedCap>>

InitExec ==
  /\ now = Epoch
  /\ RiskEngineInit
  /\ cooldownMs <= MaxExecSteps * retryDelayMs
  /\ ExecutorInit
  /\ ratio = 1 /\ notionalCap = 0
  /\ LoopInit
  /\ execAt = [c \in Coins |-> NoTime]
  /\ panicAsked = FALSE
  /\ errorTimes = <<>>
  /\ resetAt = now
  /\ trace = <<>>
  /\ ProbeInit

\* the executor's steps are not recorded
Untraced == UNCHANGED <<trace, probeVars>>

NextExec ==
  \/ \E orders \in Batches, currentPositions \in ExecPositionLists,
        currentTotalNotional \in Notionals, marketData \in MarketDatas :
       /\ executeOrders(orders, currentPositions, currentTotalNotional, marketData)
       /\ LoopIdle /\ Untraced
  \/ SkipNoPrice /\ LoopIdle /\ Untraced
  \/ RejectByRisk /\ LoopIdle /\ Untraced
  \/ ExecuteDryRun /\ LoopIdle /\ Untraced
  \/ Submit /\ LoopIdle /\ Untraced
  \/ CatchUnexpected /\ LoopIdle /\ Untraced
  \/ PlaceOrderSucceeds /\ LoopIdle /\ Untraced
  \/ \E error \in {ExchangeError, ExchangeException} :
       PlaceOrderFailsRetry(error) /\ LoopIdle /\ Untraced
  \/ \E error \in {ExchangeError, ExchangeException} :
       PlaceOrderFailsLast(error) /\ LoopIdle /\ Untraced
  \/ SleepDone /\ LoopIdle /\ Untraced
  \/ resetCounters /\ execPc = "idle" /\ LoopIdle /\ Untraced
  \/ Elapse(retryDelayMs, MaxExecSteps * retryDelayMs) /\ AtAwait
       /\ UNCHANGED <<engineVars, observerVars, execVars>> /\ LoopIdle /\ Untraced
  \/ AtAwait /\ enablePanicMode /\ panicAsked' = TRUE
       /\ UNCHANGED <<execAt, errorTimes, resetAt>> /\ ExecFrame /\ LoopIdle /\ Untraced
  \/ AtAwait /\ disablePanicMode /\ panicAsked' = FALSE
       /\ UNCHANGED <<execAt, errorTimes, resetAt>> /\ ExecFrame /\ LoopIdle /\ Untraced

SpecExec == InitExec /\ [][NextExec]_vars

\* the loop alone: the engine and the executor stay as constructed
LoopAlone == UNCHANGED <<now, engineVars, observerVars, execVars, trace, tickVars,
                         probeVars>>

InitLoop ==
  /\ now = Epoch
  /\ RiskEngineInit
  /\ maxLeverage = 5 /\ maxTotalNotional = 30 /\ cooldownMs = 0
  /\ ExecutorInit
  /\ LoopInit
  /\ execAt = [c \in Coins |-> NoTime]
  /\ panicAsked = FALSE
  /\ errorTimes = <<>>
  /\ resetAt = now
  /\ trace = <<>>
  /\ ProbeInit

NextLoop ==
  \/ start /\ LoopAlone
  \/ startWhileRunning /\ LoopAlone
  \/ stop /\ LoopAlone
  \/ enable /\ LoopAlone
  \/ disable /\ LoopAlone
  \/ \E params \in LoopParams : updateParams(params) /\ LoopAlone
  \/ \E l \in LoopIds : TickSettles(l) /\ LoopAlone
  \/ \E l \in LoopIds : LoopWakes(l) /\ LoopAlone

SpecLoop == InitLoop /\ [][NextLoop]_vars

\* the event loop runs the continuation of every settled await: the timer of
\* sleep() fires, and the tick awaited settles (its fetches and retries are
\* finite)
SpecLoopLive ==
  /\ InitLoop /\ [][NextLoop]_vars
  /\ \A l \in LoopIds : WF_vars(TickSettles(l) /\ LoopAlone)
  /\ \A l \in LoopIds : WF_vars(LoopWakes(l) /\ LoopAlone)

\* the while loops that are inside tick()
TicksInFlight == {l \in LoopIds : loops[l] = "tick"}

\* C10: at most one tick is executing at any time, under every interleaving
\* of start, stop, enable, disable and updateParams with the loop's awaits.
C10_OneTickAtATime == Cardinality(TicksInFlight) <= 1

\* the notional of order i of the running batch: size * markPrice
OrderNotional(i) ==
  call.orders[i].size * MarkPriceOf(call.marketData, call.orders[i].coin)

\* the indices of the orders of the batch reported in executedOrders
ExecutedIdx ==
  {result.executedOrders[k].order : k \in 1..Len(result.executedOrders)}

\* C9: two non-reduce-only orders of one batch are never both allowed and
\* executed when currentTotalNotional plus the sum of their notionals exceeds
\* the maxTotalNotional in force at the later order's risk check.
C9_BatchRespectsCap ==
  \A i, j \in ExecutedIdx :
    (i < j /\ ~call.orders[i].reduceOnly /\ ~call.orders[j].reduceOnly) =>
      call.currentTotalNotional + OrderNotional(i) + OrderNotional(j)
        <= checkedCap[j]

(***************************************************************************)
(* Specification of the RiskEngine under arbitrary calls                   *)
(***************************************************************************)
Init ==
  /\ now = Epoch
  /\ RiskEngineInit
  /\ dryRunLogOnly = FALSE
  /\ ExecutorInit
  /\ ratio = 1 /\ notionalCap = 0
  /\ LoopInit
  /\ execAt = [c \in Coins |-> NoTime]
  /\ panicAsked = FALSE
  /\ errorTimes = <<>>
  /\ resetAt = now
  /\ trace = <<>>
  /\ ProbeInit

\* the engine is called directly: the executor stays idle
EngineAlone == UNCHANGED <<execVars, loopVars, trace, probeVars>>

Next ==
  \/ Advance /\ UNCHANGED <<engineVars, observerVars>> /\ EngineAlone
  \/ \E coin \in Coins :
       /\ recordExecution(coin)
       /\ execAt' = [execAt EXCEPT ![coin] = now]
       /\ UNCHANGED <<now, panicAsked, errorTimes, resetAt>>
       /\ EngineAlone
  \/ recordError /\ UNCHANGED <<now, observerVars>> /\ EngineAlone
  \/ enablePanicMode /\ panicAsked' = TRUE
       /\ UNCHANGED <<now, execAt, errorTimes, resetAt>> /\ EngineAlone
  \/ disablePanicMode /\ panicAsked' = FALSE
       /\ UNCHANGED <<now, execAt, errorTimes, resetAt>> /\ EngineAlone
  \/ resetCircuitBreaker /\ UNCHANGED <<now, observerVars>> /\ EngineAlone
  \/ \E params \in RiskParams :
       updateRiskParams(params) /\ UNCHANGED <<now, observerVars>> /\ EngineAlone

Spec == Init /\ [][Next]_vars

(***************************************************************************)
(* Claims about the RiskEngine                                             *)
(***************************************************************************)
\* every call checkOrder(order, currentPositions, currentTotalNotional, markPrice)
\* of the model's domains
CheckArgs == OrderRequest \X PositionLists \X Notionals \X MarkPrices

Result(a) == checkOrder(a[1], a[2], a[3], a[4])

\* a cooldown is active for a coin: recordExecution was called for it and less
\* than cooldownMs has elapsed since the last such call
CooldownActive(coin) ==
  execAt[coin] # NoTime /\ now - execAt[coin] < cooldownMs

\* the checks of the spec's list, each on its own, in the order of the list
FailsPanic(a) == panicMode /\ ~a[1].reduceOnly
FailsBreaker(a) == autoTradingDisabled /\ ~a[1].reduceOnly
FailsCooldown(a) == CooldownActive(a[1].coin)
FailsNotional(a) ==
  ~a[1].reduceOnly /\ a[3] + a[1].size * a[4] > maxTotalNotional
FailsLeverage(a) ==
  ~a[1].reduceOnly /\ LeverageCheckFails(a[1], a[2], a[4])

FirstFailure(a) ==
  IF FailsPanic(a) THEN ReasonPanic
  ELSE IF FailsBreaker(a) THEN ReasonBreaker
  ELSE IF FailsCooldown(a) THEN ReasonCooldown
  ELSE IF FailsNotional(a) THEN ReasonNotional
  ELSE IF FailsLeverage(a) THEN ReasonLeverage
  ELSE Undefined

\* C1: checkOrder returns the reason of the earliest failing check in the
\* order panic, circuit breaker, cooldown, total notional, leverage, and
\* allowed = true only when no check fails.
C1_FirstFailingCheck ==
  \A a \in CheckArgs :
    LET res == Result(a)
        first == FirstFailure(a)
    IN /\ res.reason = first
       /\ res.allowed <=> first = Undefined

\* several checks fail for one order (panic, breaker, cooldown and notional)
\* and the PANIC reason is returned
C1_Witness ==
  \E a \in CheckArgs :
    /\ FailsPanic(a) /\ FailsBreaker(a) /\ FailsCooldown(a) /\ FailsNotional(a)
    /\ Result(a) = RiskCheckResult(FALSE, ReasonPanic)

\* C2: a reduce-only order is allowed exactly when no cooldown is active for
\* its instrument, whatever panicMode, autoTradingDisabled, the notional, the
\* positions and the limits are.
C2_ReduceOnlyOnlyCooldown ==
  \A a \in CheckArgs :
    a[1].reduceOnly => (Result(a).allowed <=> ~CooldownActive(a[1].coin))

\* a reduce-only order over the notional cap is allowed under panic mode with
\* the breaker tripped, while one on a coin in cooldown is rejected
C2_Witness ==
  /\ panicMode /\ autoTradingDisabled
  /\ \E a \in CheckArgs :
       /\ a[1].reduceOnly /\ a[3] + a[1].size * a[4] > maxTotalNotional
       /\ Result(a).allowed
  /\ \E a \in CheckArgs :
       a[1].reduceOnly /\ CooldownActive(a[1].coin) /\ ~Result(a).allowed

\* C3: while panicMode is true every non-reduce-only order is rejected with a
\* reason containing 'PANIC'; enablePanicMode sets the flag, disablePanicMode
\* clears it, and with the flag cleared no order is rejected for panic.
C3_PanicMode ==
  /\ panicMode = panicAsked
  /\ \A a \in CheckArgs :
       LET res == Result(a)
       IN IF panicMode
            THEN ~a[1].reduceOnly =>
                   ~res.allowed /\ includes(res.reason, "PANIC")
            ELSE ~includes(res.reason, "PANIC")

\* panic mode is on together with a tripped breaker and an active cooldown
C3_Witness ==
  /\ panicAsked /\ panicMode /\ autoTradingDisabled
  /\ \E a \in CheckArgs :
       /\ ~a[1].reduceOnly /\ CooldownActive(a[1].coin)
       /\ includes(Result(a).reason, "PANIC")

\* C5: once the breaker has tripped, autoTradingDisabled stays true through
\* every step (recordExecution, recordError, panic calls, updateParams, the
\* passage of time) that is not a resetCircuitBreaker call.
C5_OnlyResetClearsBreaker ==
  [][autoTradingDisabled /\ ~autoTradingDisabled' => resetCircuitBreaker]_vars

\* the breaker is still tripped after its window has expired and a new
\* window has been started by a later error
C5_Witness ==
  /\ autoTradingDisabled
  /\ circuitBreaker.windowStart > Epoch
  /\ circuitBreaker.errorCount = 1

\* C8: with no panic, no tripped breaker and no cooldown, a non-reduce-only
\* order is rejected with a reason containing 'notional' exactly when
\* currentTotalNotional + size * markPrice > maxTotalNotional, and the same
\* order marked reduce-only is allowed.
C8_NotionalCap ==
  \A a \in CheckArgs :
    (~panicMode /\ ~autoTradingDisabled /\ ~CooldownActive(a[1].coin)
       /\ ~a[1].reduceOnly) =>
      /\ includes(Result(a).reason, "notional")
           <=> a[3] + a[1].size * a[4] > maxTotalNotional
      /\ checkOrder([a[1] EXCEPT !.reduceOnly = TRUE], a[2], a[3], a[4]).allowed

\* an order that reaches the cap exactly is allowed, and one above it is
\* rejected for notional while its reduce-only twin is allowed
C8_Witness ==
  /\ ~panicMode /\ ~autoTradingDisabled
  /\ \E a \in CheckArgs :
       /\ ~a[1].reduceOnly /\ ~CooldownActive(a[1].coin)
       /\ execAt[a[1].coin] # NoTime
       /\ a[3] + a[1].size * a[4] = maxTotalNotional
       /\ Result(a).allowed
  /\ \E a \in CheckArgs :
       /\ ~a[1].reduceOnly /\ ~CooldownActive(a[1].coin)
       /\ a[3] + a[1].size * a[4] > maxTotalNotional
       /\ includes(Result(a).reason, "notional")
       /\ checkOrder([a[1] EXCEPT !.reduceOnly = TRUE], a[2], a[3], a[4]).allowed

\* C7 (as amended): while less than cooldownMs has elapsed since the last
\* recordExecution(X), every order on X is rejected, with a reason containing
\* 'Cooldown' unless the order is not reduce-only and panic mode or the
\* tripped breaker rejects it first; once cooldownMs has elapsed, and for an
\* instrument never executed (whatever was executed on other instruments), no
\* order is rejected for cooldown.
C7_CooldownPerInstrument ==
  \A a \in CheckArgs :
    LET res == Result(a)
    IN IF CooldownActive(a[1].coin)
         THEN /\ ~res.allowed
              /\ \/ includes(res.reason, "Cooldown")
                 \/ /\ ~a[1].reduceOnly
                    /\ panicMode \/ autoTradingDisabled
                    /\ \/ includes(res.reason, "PANIC")
                       \/ includes(res.reason, "circuit breaker")
         ELSE ~includes(res.reason, "Cooldown")

\* C7 as stated: every order on X is rejected with a reason containing
\* 'Cooldown' while the cooldown of X runs.
C7_AsStated ==
  \A a \in CheckArgs :
    LET res == Result(a)
    IN IF CooldownActive(a[1].coin)
         THEN ~res.allowed /\ includes(res.reason, "Cooldown")
         ELSE ~includes(res.reason, "Cooldown")

\* BTC is in cooldown and its orders are rejected for it, while the cooldown
\* of ETH, executed earlier, has elapsed and an order on ETH is allowed
C7_Witness ==
  /\ CooldownActive("BTC")
  /\ execAt["ETH"] # NoTime /\ now - execAt["ETH"] >= cooldownMs
  /\ \E a \in CheckArgs :
       a[1].coin = "BTC" /\ includes(Result(a).reason, "Cooldown")
  /\ \E a \in CheckArgs : a[1].coin = "ETH" /\ Result(a).allowed

(***************************************************************************)
(* The RiskEngine with the history of its recordError calls                *)
(***************************************************************************)
\* errorTimes keeps the times of the last circuitBreakerErrorThreshold calls
LastCalls(times) ==
  IF Len(times) <= circuitBreakerErrorThreshold THEN times ELSE Tail(times)

NextBreaker ==
  \/ Advance /\ UNCHANGED <<engineVars, observerVars>> /\ EngineAlone
  \/ recordError /\ errorTimes' = LastCalls(Append(errorTimes, now))
       /\ UNCHANGED <<now, execAt, panicAsked, resetAt>> /\ EngineAlone
  \/ resetCircuitBreaker /\ errorTimes' = <<>> /\ resetAt' = now
       /\ UNCHANGED <<now, execAt, panicAsked>> /\ EngineAlone
  \/ \E coin \in Coins :
       /\ recordExecution(coin)
       /\ execAt' = [execAt EXCEPT ![coin] = now]
       /\ UNCHANGED <<now, panicAsked, errorTimes, resetAt>>
       /\ EngineAlone
  \/ enablePanicMode /\ panicAsked' = TRUE
       /\ UNCHANGED <<now, execAt, errorTimes, resetAt>> /\ EngineAlone
  \/ disablePanicMode /\ panicAsked' = FALSE
       /\ UNCHANGED <<now, execAt, errorTimes, resetAt>> /\ EngineAlone
  \/ \E params \in RiskParams :
       updateRiskParams(params) /\ UNCHANGED <<now, observerVars>> /\ EngineAlone

SpecBreaker == Init /\ [][NextBreaker]_vars

\* the number of recordError calls since construction or the last reset
\* (circuitBreakerErrorThreshold stands for that many or more)
CallsSinceReset == Len(errorTimes)

\* C4 (as amended): from a fresh or freshly reset engine, fewer than 5
\* recordError calls leave autoTradingDisabled false and the fifth call inside
\* the error window sets it; then every non-reduce-only order is rejected,
\* with a reason containing 'circuit breaker' unless panic mode is on (the
\* PANIC reason comes first); resetCircuitBreaker clears the flag and the
\* error count.
C4_BreakerTripsAtFive ==
  /\ CallsSinceReset = 0 =>
       ~autoTradingDisabled /\ circuitBreaker.errorCount = 0
  /\ CallsSinceReset < circuitBreakerErrorThreshold => ~autoTradingDisabled
  /\ ( /\ CallsSinceReset = circuitBreakerErrorThreshold
       /\ errorTimes[Len(errorTimes)] - resetAt <= circuitBreakerWindowMs )
       => autoTradingDisabled
  /\ autoTradingDisabled =>
       \A a \in CheckArgs :
         ~a[1].reduceOnly =>
           LET res == Result(a)
           IN /\ ~res.allowed
              /\ IF panicMode THEN includes(res.reason, "PANIC")
                 ELSE includes(res.reason, "circuit breaker")

\* C4 as stated: with the breaker tripped every non-reduce-only order is
\* rejected with a reason containing 'circuit breaker'.
C4_AsStated ==
  /\ CallsSinceReset < circuitBreakerErrorThreshold => ~autoTradingDisabled
  /\ ( /\ CallsSinceReset = circuitBreakerErrorThreshold
       /\ errorTimes[Len(errorTimes)] - resetAt <= circuitBreakerWindowMs )
       => autoTradingDisabled
  /\ autoTradingDisabled =>
       \A a \in CheckArgs :
         ~a[1].reduceOnly =>
           ~Result(a).allowed /\ includes(Result(a).reason, "circuit breaker")

\* the breaker was reset and has tripped again on the fifth error after the
\* reset, and a non-reduce-only order gets the circuit breaker reason
C4_Witness ==
  /\ resetAt > Epoch
  /\ CallsSinceReset = circuitBreakerErrorThreshold
  /\ circuitBreaker.errorCount = circuitBreakerErrorThreshold
  /\ autoTradingDisabled
  /\ \E a \in CheckArgs :
       ~a[1].reduceOnly /\ includes(Result(a).reason, "circuit breaker")

\* C6: five recordError calls with less than 5 minutes between the first and
\* the fifth, and no reset in between, leave autoTradingDisabled true.
C6_RollingWindow ==
  ( /\ Len(errorTimes) = circuitBreakerErrorThreshold
    /\ errorTimes[circuitBreakerErrorThreshold] - errorTimes[1]
         < circuitBreakerWindowMs )
    => autoTradingDisabled

(***************************************************************************)
(* Specification of the Executor with the record of what it did per order  *)
(***************************************************************************)
\* the risk check of the order at the head of the for loop
RiskCheckOfOrder ==
  LET order == call.orders[orderIdx]
  IN checkOrder(order, call.currentPositions, call.currentTotalNotional,
                MarkPriceOf(call.marketData, order.coin))

\* an entry of the record: op is skip (no market price), checkOrder (text is
\* the reason, "" when allowed), placeOrder (n is the attempt, text the error,
\* "" on success), sleep (n is the delay) or exception (caught per order)
Event(op, n, text) ==
  [batch |-> batches, idx |-> orderIdx, order |-> call.orders[orderIdx],
   op |-> op, n |-> n, text |-> text, at |-> now]

Log(events) == trace' = trace \o events /\ UNCHANGED probeVars

\* the longest time a run of MaxBatches batches can spend in backoff
BatchHorizon == MaxBatches * MaxBatchLen * maxRetries * retryDelayMs

\* the timer of the pending sleep(delay) fires
TimerFires ==
  /\ execPc = "backoff"
  /\ now < wakeAt
  /\ Elapse(wakeAt - now, BatchHorizon)

InitBatch ==
  /\ now = Epoch
  /\ maxLeverage = 5 /\ maxTotalNotional = 30
  /\ cooldownMs \in {0, 2 * retryDelayMs}
  /\ RiskEngineInit
  /\ ExecutorInit
  /\ ratio = 1 /\ notionalCap = 0
  /\ LoopInit
  /\ execAt = [c \in Coins |-> NoTime]
  /\ panicAsked = FALSE
  /\ errorTimes = <<>>
  /\ resetAt = now
  /\ trace = <<>>
  /\ ProbeInit

NextBatch ==
  \/ \E orders \in Batches, currentTotalNotional \in Notionals,
        marketData \in MarketDatas :
       /\ executeOrders(orders, <<>>, currentTotalNotional, marketData)
       /\ LoopIdle /\ Untraced
  \/ SkipNoPrice /\ Log(<<Event("skip", 0, NoMarketPrice)>>) /\ LoopIdle
  \/ RejectByRisk /\ Log(<<Event("checkOrder", 0, RiskCheckOfOrder.reason)>>)
       /\ LoopIdle
  \/ ExecuteDryRun /\ Log(<<Event("checkOrder", 0, "")>>) /\ LoopIdle
  \/ Submit /\ Log(<<Event("checkOrder", 0, "")>>) /\ LoopIdle
  \/ CatchUnexpected /\ Log(<<Event("exception", 0, UnexpectedException)>>)
       /\ LoopIdle
  \/ PlaceOrderSucceeds /\ Log(<<Event("placeOrder", attempt, "")>>) /\ LoopIdle
  \/ \E error \in {ExchangeError, ExchangeException} :
       /\ PlaceOrderFailsRetry(error)
       /\ Log(<<Event("placeOrder", attempt, error),
                Event("sleep", wakeAt' - now, "")>>)
       /\ LoopIdle
  \/ \E error \in {ExchangeError, ExchangeException} :
       /\ PlaceOrderFailsLast(error)
       /\ Log(<<Event("placeOrder", attempt, error)>>)
       /\ LoopIdle
  \/ SleepDone /\ LoopIdle /\ Untraced
  \/ TimerFires /\ UNCHANGED <<engineVars, observerVars, execVars>>
       /\ LoopIdle /\ Untraced
  \/ AtAwait /\ enablePanicMode /\ panicAsked' = TRUE
       /\ UNCHANGED <<execAt, errorTimes, resetAt>> /\ ExecFrame /\ LoopIdle /\ Untraced
  \/ AtAwait /\ disablePanicMode /\ panicAsked' = FALSE
       /\ UNCHANGED <<execAt, errorTimes, resetAt>> /\ ExecFrame /\ LoopIdle /\ Untraced

SpecBatch == InitBatch /\ [][NextBatch]_vars

\* the orders the executor has started on: <<batch, index>>
Started == {<<trace[k].batch, trace[k].idx>> : k \in 1..Len(trace)}

\* the part of the record that is about order o and whose op is in ops
EventsOf(o, ops) ==
  SelectSeq(trace, LAMBDA e : <<e.batch, e.idx>> = o /\ e.op \in ops)

\* the executor has moved on from order o
Finished(o) ==
  \/ o[1] < batches
  \/ o[1] = batches /\ (execPc = "idle" \/ o[2] < orderIdx)

\* the orders that passed the risk check with the executor live: they reach
\* submission
Submitted ==
  {o \in Started : /\ ~dryRunLogOnly
                   /\ \E k \in 1..Len(trace) :
                        /\ <<trace[k].batch, trace[k].idx>> = o
                        /\ trace[k].op = "checkOrder" /\ trace[k].text = ""}

\* C15: an order that reaches submission causes 1 to 3 placeOrder calls,
\* numbered 1, 2, 3; none follows a success; a failed attempt 1 or 2 is
\* followed by a sleep of retryDelayMs * 2^(attempt-1) and the next attempt
\* comes no sooner; no sleep follows attempt 3, and when attempt 3 fails its
\* error is the one surfaced in errors.
C15_RetryPolicy ==
  /\ \A o \in Submitted :
       LET P == EventsOf(o, {"placeOrder", "sleep"})
       IN /\ Len(P) <= 2 * maxRetries - 1
          /\ Finished(o) => Len(P) >= 1 /\ P[Len(P)].op = "placeOrder"
          /\ \A k \in 1..Len(P) :
               IF k % 2 = 1
                 THEN /\ P[k].op = "placeOrder"
                      /\ P[k].n = (k + 1) \div 2
                      /\ P[k].text = "" => k = Len(P)
                      /\ k > 1 => P[k].at >= P[k - 1].at + P[k - 1].n
                      /\ (Finished(o) /\ k = Len(P)) =>
                           (P[k].text = "" \/ P[k].n = maxRetries)
                 ELSE /\ P[k].op = "sleep"
                      /\ P[k].n = retryDelayMs * 2 ^ (P[k - 1].n - 1)
                      /\ P[k].n \in {retryDelayMs, 2 * retryDelayMs}
                      /\ P[k - 1].text # ""
  /\ \A o \in Started \ Submitted : EventsOf(o, {"placeOrder", "sleep"}) = <<>>
  /\ (/\ trace # <<>>
      /\ trace[Len(trace)].op = "placeOrder"
      /\ trace[Len(trace)].n = maxRetries
      /\ trace[Len(trace)].text # "")
       => /\ result.errors # <<>>
          /\ result.errors[Len(result.errors)] = trace[Len(trace)].text
          /\ ~result.success

\* an order failed twice with one error and a third time with another, after
\* sleeps of 1 s and 2 s
C15_Witness ==
  \E o \in Submitted :
    LET P == EventsOf(o, {"placeOrder", "sleep"})
    IN /\ Len(P) = 5 /\ Finished(o)
       /\ P[1].text = ExchangeError /\ P[3].text = ExchangeError
       /\ P[5].text = ExchangeException
       /\ P[2].n = 1000 /\ P[4].n = 2000
       /\ result.errors = <<ExchangeException>>

\* the entries of the record that end the processing of an order, by kind
IsSkip(e) == e.op = "skip"
IsRejection(e) == e.op = "checkOrder" /\ e.text # ""
IsFailure(e) ==
  \/ e.op = "exception"
  \/ e.op = "placeOrder" /\ e.text # "" /\ e.n >= maxRetries
IsExecution(e) ==
  \/ e.op = "placeOrder" /\ e.text = ""
  \/ e.op = "checkOrder" /\ e.text = "" /\ dryRunLogOnly
IsOutcome(e) == IsSkip(e) \/ IsRejection(e) \/ IsFailure(e) \/ IsExecution(e)

\* the outcomes recorded for order i of the running batch
OutcomesOf(i) ==
  SelectSeq(trace, LAMBDA e : e.batch = batches /\ e.idx = i /\ IsOutcome(e))

\* the entries of the record about the running batch that satisfy Test
InBatch(Test(_)) == SelectSeq(trace, LAMBDA e : e.batch = batches /\ Test(e))

\* C16: a failing order never aborts the batch: every order the for loop has
\* passed has exactly one outcome, whatever the outcomes of the orders before
\* it; when executeOrders returns, each of the N orders has its outcome, the
\* three lists of the result hold them, and success is false exactly when
\* some order failed.
C16_FailureDoesNotAbort ==
  batches >= 1 =>
    /\ \A i \in 1..Len(call.orders) :
         /\ Finished(<<batches, i>>) => Len(OutcomesOf(i)) = 1
         /\ Len(OutcomesOf(i)) <= 1
         /\ i > orderIdx => EventsOf(<<batches, i>>, {"skip", "checkOrder",
                               "placeOrder", "sleep", "exception"}) = <<>>
    /\ execPc = "idle" => \A i \in 1..Len(call.orders) : Finished(<<batches, i>>)
    /\ execPc # "idle" => orderIdx \in 1..Len(call.orders)
    /\ Len(result.errors) = Len(InBatch(IsFailure))
    /\ Len(result.executedOrders) = Len(InBatch(IsExecution))
    /\ Len(result.rejectedOrders) = Len(InBatch(IsSkip)) + Len(InBatch(IsRejection))
    /\ result.success <=> InBatch(IsFailure) = <<>>

\* a returned batch whose first order failed its three attempts and whose
\* second order was executed
C16_Witness ==
  /\ batches >= 1 /\ execPc = "idle" /\ Len(call.orders) = 2
  /\ \E k \in 1..Len(trace) :
       /\ trace[k].batch = batches /\ trace[k].idx = 1
       /\ trace[k].op = "placeOrder" /\ trace[k].n = 3 /\ trace[k].text # ""
  /\ ExecutedIdx = {2}
  /\ ~result.success

\* the orders whose third attempt failed, and those whose processing threw
Exhausted ==
  {o \in Submitted : EventsOf(o, {"placeOrder"}) # <<>> /\
     LET P == EventsOf(o, {"placeOrder"})
     IN P[Len(P)].n = maxRetries /\ P[Len(P)].text # ""}
Thrown == {o \in Started : EventsOf(o, {"exception"}) # <<>>}

\* the failed attempts of order o
FailedAttempts(o) ==
  SelectSeq(trace, LAMBDA e : /\ <<e.batch, e.idx>> = o
                              /\ e.op = "placeOrder" /\ e.text # "")

\* C17: errors are counted per order, not per attempt: the executor's
\* errorCount and the circuit breaker's error count both equal the number of
\* orders that failed (all 3 attempts, or by an exception), errors holds one
\* entry per such order of the batch, and an order that succeeded on a later
\* attempt is not among them.
C17_ErrorOncePerOrder ==
  /\ counters.errorCount = Cardinality(Exhausted) + Cardinality(Thrown)
  /\ circuitBreaker.errorCount = Cardinality(Exhausted) + Cardinality(Thrown)
  /\ Len(result.errors) =
       Cardinality({o \in Exhausted \cup Thrown : o[1] = batches})
  /\ \A o \in Submitted :
       LET P == EventsOf(o, {"placeOrder"})
       IN (P # <<>> /\ P[Len(P)].text = "") => o \notin Exhausted \cup Thrown

\* one order succeeded on its 3rd attempt and another failed all 3: five
\* failed attempts, one error
C17_Witness ==
  /\ execPc = "idle"
  /\ \E o \in Submitted :
       /\ Len(FailedAttempts(o)) = 2
       /\ Len(EventsOf(o, {"placeOrder"})) = 3
  /\ \E o \in Exhausted : Len(FailedAttempts(o)) = 3
  /\ counters.errorCount = 1
  /\ circuitBreaker.errorCount = 1
  /\ Len(result.errors) = 1

\* the orders the risk engine disallowed
RiskRejected ==
  {o \in Started : \E k \in 1..Len(trace) :
     <<trace[k].batch, trace[k].idx>> = o /\ IsRejection(trace[k])}

AllOps == {"skip", "checkOrder", "placeOrder", "sleep", "exception"}

\* C18: for an order checkOrder disallows, the checkOrder call is all that
\* happens: it is in rejectedOrders with the risk reason and counted in
\* rejectCount; there is no placeOrder call, sleep or exception for it, it
\* leaves no recordExecution timestamp and no error (errorCount and the
\* circuit breaker's count are those of the failed orders only), and success
\* stays true unless some order failed.
C18_RiskRejection ==
  /\ \A o \in RiskRejected :
       LET P == EventsOf(o, AllOps)
       IN /\ Len(P) = 1
          /\ o[1] = batches =>
               \E k \in 1..Len(result.rejectedOrders) :
                 result.rejectedOrders[k] = [order |-> o[2], reason |-> P[1].text]
          /\ P[1].text \in {ReasonPanic, ReasonBreaker, ReasonCooldown,
                            ReasonNotional, ReasonLeverage}
  /\ counters.rejectCount >= Cardinality(RiskRejected)
  /\ counters.rejectCount =
       Len(SelectSeq(trace, IsRejection)) + Len(SelectSeq(trace, IsSkip))
  /\ counters.errorCount = Len(SelectSeq(trace, IsFailure))
  /\ circuitBreaker.errorCount = Len(SelectSeq(trace, IsFailure))
  /\ \A c \in DOMAIN lastExecByCoin :
       \E k \in 1..Len(trace) :
         /\ IsExecution(trace[k]) /\ trace[k].order.coin = c
         /\ trace[k].at = lastExecByCoin[c]
  /\ ~result.success => InBatch(IsFailure) # <<>>

\* a returned batch of two orders, both disallowed: two rejections and
\* nothing else
C18_Witness ==
  /\ execPc = "idle" /\ batches >= 1
  /\ Cardinality(RiskRejected) = 2
  /\ Len(result.rejectedOrders) = 2
  /\ counters = [execCount |-> 0, rejectCount |-> 2, errorCount |-> 0]
  /\ circuitBreaker.errorCount = 0
  /\ DOMAIN lastExecByCoin = {}
  /\ result.success

\* the orders skipped for want of a market price
LocallySkipped ==
  {o \in Started : \E k \in 1..Len(trace) :
     <<trace[k].batch, trace[k].idx>> = o /\ IsSkip(trace[k])}

\* what a local skip does besides the counting: the reason is 'No market
\* price available', neither checkOrder nor placeOrder is called, and no
\* error is counted
SkipIsLocal ==
  /\ \A o \in LocallySkipped :
       LET P == EventsOf(o, AllOps)
       IN /\ Len(P) = 1 /\ P[1].text = NoMarketPrice
          /\ o[1] = batches =>
               \E k \in 1..Len(result.rejectedOrders) :
                 result.rejectedOrders[k] = [order |-> o[2], reason |-> NoMarketPrice]
  /\ counters.errorCount = Len(SelectSeq(trace, IsFailure))
  /\ circuitBreaker.errorCount = Len(SelectSeq(trace, IsFailure))

\* C19: an order without a mark price is skipped locally with the reason 'No
\* market price available', without a checkOrder or placeOrder call, and the
\* skip is counted neither in rejectCount (which counts the risk engine's
\* rejections) nor as an error.
C19_SkipNotCounted ==
  /\ SkipIsLocal
  /\ counters.rejectCount = Len(SelectSeq(trace, IsRejection))

\* dry-run mode: placeOrder is never called, and every order that passes the
\* risk check is reported executed, counted in execCount and leaves its
\* recordExecution timestamp
DryRunExecutes ==
  dryRunLogOnly =>
    /\ execPc \notin {"placing", "backoff"}
    /\ SelectSeq(trace, LAMBDA e : e.op \in {"placeOrder", "sleep"}) = <<>>
    /\ counters.execCount = Len(SelectSeq(trace, IsExecution))
    /\ \A k \in 1..Len(trace) :
         IsExecution(trace[k]) =>
           /\ trace[k].batch = batches => trace[k].idx \in ExecutedIdx
           /\ trace[k].order.coin \in DOMAIN lastExecByCoin
           /\ lastExecByCoin[trace[k].order.coin] >= trace[k].at

\* the pairs k < l of the record where l is a risk check of an order on the
\* instrument of the execution k, less than cooldownMs after it
CheckedInCooldown ==
  {<<k, l>> \in (1..Len(trace)) \X (1..Len(trace)) :
     /\ k < l
     /\ IsExecution(trace[k])
     /\ trace[l].op = "checkOrder"
     /\ trace[l].order.coin = trace[k].order.coin
     /\ trace[l].at - trace[k].at < cooldownMs}

\* C20: in dry-run mode placeOrder is never called, every order that passes
\* the risk check is executed, counted and timestamped, and an order on the
\* same instrument checked less than cooldownMs later is rejected: for
\* Cooldown, or, when it is not reduce-only, with the PANIC or circuit
\* breaker reason of the checks that come before the cooldown check.
C20_DryRun ==
  /\ DryRunExecutes
  /\ dryRunLogOnly =>
       \A p \in CheckedInCooldown :
         \/ trace[p[2]].text = ReasonCooldown
         \/ /\ ~trace[p[2]].order.reduceOnly
            /\ trace[p[2]].text \in {ReasonPanic, ReasonBreaker}

\* C20 as stated: the later order is always rejected for Cooldown
C20_AsStated ==
  /\ DryRunExecutes
  /\ dryRunLogOnly =>
       \A p \in CheckedInCooldown : includes(trace[p[2]].text, "Cooldown")

\* a dry-run batch of two orders on one instrument: the first executed, the
\* second rejected for Cooldown
C20_Witness ==
  /\ dryRunLogOnly /\ execPc = "idle" /\ cooldownMs > 0
  /\ Len(call.orders) = 2
  /\ ExecutedIdx = {1}
  /\ counters.execCount = 1
  /\ result.rejectedOrders = <<[order |-> 2, reason |-> ReasonCooldown]>>
  /\ <<1, 2>> \in CheckedInCooldown

(***************************************************************************)
(* Aggregator (core/aggregator.ts) and Targeting (core/targeting.ts)       *)
(* Sizes are integers: |x| > 0.0001 is x # 0, and the domains are chosen   *)
(* so that every quotient the code computes is an integer.                 *)
(***************************************************************************)
\* a JavaScript Map, in insertion order: a sequence of entries with distinct
\* keys
MapKeys(map) == [k \in 1..Len(map) |-> map[k].key]
MapHas(map, key) == \E k \in 1..Len(map) : map[k].key = key
MapGet(map, key) == map[CHOOSE k \in 1..Len(map) : map[k].key = key].value
MapPut(map, key, value) ==
  IF MapHas(map, key)
    THEN [k \in 1..Len(map) |->
            IF map[k].key = key THEN [key |-> key, value |-> value] ELSE map[k]]
    ELSE Append(map, [key |-> key, value |-> value])

\* new Map(entries)
RECURSIVE MapOf(_)
MapOf(entries) ==
  IF entries = <<>> THEN <<>>
  ELSE MapPut(MapOf(SubSeq(entries, 1, Len(entries) - 1)),
              entries[Len(entries)].key, entries[Len(entries)].value)

\* all the positions of all the leaders, in the order aggregate visits them
RECURSIVE AllPositions(_)
AllPositions(leaderPositions) ==
  IF leaderPositions = <<>> THEN <<>>
  ELSE leaderPositions[1].value \o AllPositions(Tail(leaderPositions))

\* coinSizes: coin -> the sizes pushed for it
RECURSIVE CoinSizes(_)
CoinSizes(positions) ==
  IF positions = <<>> THEN <<>>
  ELSE LET before == CoinSizes(SubSeq(positions, 1, Len(positions) - 1))
           pos == positions[Len(positions)]
       IN MapPut(before, pos.coin,
                 IF MapHas(before, pos.coin)
                   THEN Append(MapGet(before, pos.coin), pos.size)
                   ELSE <<pos.size>>)

\* sizes.reduce((sum, s) => sum + s, 0)
RECURSIVE Sum(_)
Sum(sizes) == IF sizes = <<>> THEN 0 ELSE sizes[1] + Sum(Tail(sizes))

\* variant: the mean is taken over all the leaders
aggregate_MeanOverAllLeaders(leaderPositions) ==
  LET coinSizes == CoinSizes(AllPositions(leaderPositions))
  IN [k \in 1..Len(coinSizes) |->
        [key |-> coinSizes[k].key,
         value |-> [coin |-> coinSizes[k].key,
                    size |-> Sum(coinSizes[k].value) \div Len(leaderPositions)]]]

\* Aggregator.aggregate: per coin, the mean of the sizes of the leaders that
\* hold it
aggregate(leaderPositions) ==
  LET coinSizes == CoinSizes(AllPositions(leaderPositions))
  IN [k \in 1..Len(coinSizes) |->
        [key |-> coinSizes[k].key,
         value |-> [coin |-> coinSizes[k].key,
                    size |-> Sum(coinSizes[k].value) \div Len(coinSizes[k].value)]]]

\* variant: every position of the follower is an orphan
detectOrphanedPositions_IgnoresLeader(followerPositions, aggregatedLeader) ==
  LET orphans == SelectSeq(followerPositions, LAMBDA pos : Abs(pos.size) # 0)
  IN [k \in 1..Len(orphans) |-> orphans[k].coin]

\* Aggregator.detectOrphanedPositions
detectOrphanedPositions(followerPositions, aggregatedLeader) ==
  LET orphans == SelectSeq(followerPositions,
                   LAMBDA pos : Abs(pos.size) # 0 /\ ~MapHas(aggregatedLeader, pos.coin))
  IN [k \in 1..Len(orphans) |-> orphans[k].coin]

\* aggregatedLeader.set(coin, {coin, size: 0}) for each orphaned coin
RECURSIVE SetOrphans(_, _)
SetOrphans(aggregatedLeader, orphaned) ==
  IF orphaned = <<>> THEN aggregatedLeader
  ELSE SetOrphans(MapPut(aggregatedLeader, orphaned[1],
                         [coin |-> orphaned[1], size |-> 0]),
                  Tail(orphaned))

\* variant: the ratio is clamped to 0..1
calculateTarget_ClampedRatio(leaderSize, currentFollowerSize, copyRatio) ==
  LET clamped == IF copyRatio < 0 THEN 0 ELSE IF copyRatio > 1 THEN 1 ELSE copyRatio
  IN [coin |-> "", targetSize |-> leaderSize * clamped,
      currentSize |-> currentFollowerSize,
      delta |-> leaderSize * clamped - currentFollowerSize]

\* Targeting.calculateTarget
calculateTarget(leaderSize, currentFollowerSize, copyRatio) ==
  [coin |-> "", targetSize |-> leaderSize * copyRatio,
   currentSize |-> currentFollowerSize,
   delta |-> leaderSize * copyRatio - currentFollowerSize]

\* allCoins: the leader's keys, then the follower's keys not yet there
RECURSIVE AddAll(_, _)
AddAll(coins, keys) ==
  IF keys = <<>> THEN coins
  ELSE AddAll(IF \E k \in 1..Len(coins) : coins[k] = keys[1]
                THEN coins ELSE Append(coins, keys[1]),
              Tail(keys))

\* variant: no dead zone, every coin of the union gets a target
computeTargets_NoDeadZone(aggregatedLeader, followerPositions, copyRatio) ==
  LET allCoins == AddAll(AddAll(<<>>, MapKeys(aggregatedLeader)),
                         MapKeys(followerPositions))
  IN [k \in 1..Len(allCoins) |->
        [calculateTarget(
           IF MapHas(aggregatedLeader, allCoins[k])
             THEN MapGet(aggregatedLeader, allCoins[k]).size ELSE 0,
           IF MapHas(followerPositions, allCoins[k])
             THEN MapGet(followerPositions, allCoins[k]).size ELSE 0,
           copyRatio) EXCEPT !.coin = allCoins[k]]]

\* Targeting.computeTargets
computeTargets(aggregatedLeader, followerPositions, copyRatio) ==
  LET allCoins == AddAll(AddAll(<<>>, MapKeys(aggregatedLeader)),
                         MapKeys(followerPositions))
      TargetOf(coin) ==
        [calculateTarget(
           IF MapHas(aggregatedLeader, coin)
             THEN MapGet(aggregatedLeader, coin).size ELSE 0,
           IF MapHas(followerPositions, coin)
             THEN MapGet(followerPositions, coin).size ELSE 0,
           copyRatio) EXCEPT !.coin = coin]
      all == [k \in 1..Len(allCoins) |-> TargetOf(allCoins[k])]
  IN SelectSeq(all, LAMBDA target : Abs(target.delta) # 0)

\* variant: reducing means nearer to zero on the same side
isReducingPosition_SameSide(currentSize, targetSize) ==
  currentSize * targetSize >= 0 /\ Abs(targetSize) < Abs(currentSize)

\* Targeting.isReducingPosition
isReducingPosition(currentSize, targetSize) ==
  IF currentSize > 0 THEN targetSize < currentSize
  ELSE IF currentSize < 0 THEN targetSize > currentSize
  ELSE FALSE

Min(a, b) == IF a <= b THEN a ELSE b

\* the chunking loop of generateOrders: while (remainingSize > 0.0001)
RECURSIVE Chunks(_, _)
Chunks(remainingSize, maxSizePerOrder) ==
  IF remainingSize > 0
    THEN <<Min(remainingSize, maxSizePerOrder)>>
           \o Chunks(remainingSize - Min(remainingSize, maxSizePerOrder),
                     maxSizePerOrder)
    ELSE <<>>

\* variant: a zero delta buys
generateOrders_BuyAtZero(target, markPrice, cap, timeInForce) ==
  LET side == IF target.delta >= 0 THEN "buy" ELSE "sell"
      isReducing == isReducingPosition(target.currentSize, target.targetSize)
      Order(size) == [coin |-> target.coin, side |-> side, size |-> size,
                      tif |-> timeInForce, reduceOnly |-> isReducing]
      maxSizePerOrder == cap \div markPrice
  IN IF cap <= 0 \/ Abs(target.delta) <= maxSizePerOrder
       THEN <<Order(Abs(target.delta))>>
       ELSE LET chunks == Chunks(Abs(target.delta), maxSizePerOrder)
            IN [k \in 1..Len(chunks) |-> Order(chunks[k])]

\* variant: the size is never split
generateOrders_NoChunking(target, markPrice, cap, timeInForce) ==
  <<[coin |-> target.coin, side |-> IF target.delta > 0 THEN "buy" ELSE "sell",
     size |-> Abs(target.delta), tif |-> timeInForce,
     reduceOnly |-> isReducingPosition(target.currentSize, target.targetSize)]>>

\* Targeting.generateOrders
generateOrders(target, markPrice, cap, timeInForce) ==
  LET side == IF target.delta > 0 THEN "buy" ELSE "sell"
      sizeToTrade == Abs(target.delta)
      isReducing == isReducingPosition(target.currentSize, target.targetSize)
      Order(size) == [coin |-> target.coin, side |-> side, size |-> size,
                      tif |-> timeInForce, reduceOnly |-> isReducing]
      maxSizePerOrder == cap \div markPrice
  IN IF cap <= 0 THEN <<Order(sizeToTrade)>>
     ELSE IF sizeToTrade <= maxSizePerOrder THEN <<Order(sizeToTrade)>>
     ELSE LET chunks == Chunks(sizeToTrade, maxSizePerOrder)
          IN [k \in 1..Len(chunks) |-> Order(chunks[k])]

(***************************************************************************)
(* CopyTradingLoop.tick, one await at a time                               *)
(***************************************************************************)
\* what getPositions can return for a leader and for the follower
LeaderFetches ==
  {<<>>, <<[coin |-> "BTC", size |-> 2, marginUsed |-> 0]>>,
   <<[coin |-> "BTC", size |-> 4, marginUsed |-> 0]>>}
FollowerFetches ==
  {<<>>, <<[coin |-> "ETH", size |-> 1, marginUsed |-> 0]>>,
   <<[coin |-> "BTC", size |-> 2, marginUsed |-> 2]>>,
   <<[coin |-> "BTC", size |-> -2, marginUsed |-> 2]>>}

\* what getMarketData(coins) can return: a price for each coin, or the empty
\* map
TickMarketDatas(coins) ==
  {<<>>, [c \in coins |-> [markPrice |-> 10, lastPrice |-> 10]]}

\* tick() is called: it runs up to the first getPositions(leader), or returns
\* at once when there is no leader
BeginTick ==
  IF leaderAddresses = <<>>
    THEN [NoTick EXCEPT !.pc = "returned"]
    ELSE [NoTick EXCEPT !.pc = "leaders", !.toFetch = leaderAddresses]

BeginTickLog ==
  [NoTickLog EXCEPT !.began =
     [ratio |-> ratio, notionalCap |-> notionalCap, tif |-> tif,
      copyMode |-> copyMode, leaderAddresses |-> leaderAddresses],
                    !.updates = tickLog.updates, !.threw = tickLog.threw]

\* the loop calls tick() when its iteration finds enabled true
IterationBegins ==
  IF Iteration = "tick" THEN tick' = BeginTick /\ tickLog' = BeginTickLog
                        ELSE UNCHANGED <<tick, tickLog>>

\* variant: entry-only mode filters nothing
TargetsOfTick_EntryOnlyKeepsAll(leaderPositionsMap, followerPositions, copyRatio, mode) ==
  LET aggregated == aggregate(leaderPositionsMap)
      orphaned == detectOrphanedPositions(followerPositions, aggregated)
      aggregatedLeader == SetOrphans(aggregated, orphaned)
      followerPositionsMap ==
        MapOf([k \in 1..Len(followerPositions) |->
                 [key |-> followerPositions[k].coin, value |-> followerPositions[k]]])
      targets == computeTargets(aggregatedLeader, followerPositionsMap, copyRatio)
  IN IF mode = "signals-only" THEN <<>> ELSE targets

\* steps 3 to 5 of tick and the copy-mode filter
TargetsOfTick(leaderPositionsMap, followerPositions, copyRatio, mode) ==
  LET aggregated == aggregate(leaderPositionsMap)
      orphaned == detectOrphanedPositions(followerPositions, aggregated)
      aggregatedLeader == SetOrphans(aggregated, orphaned)
      followerPositionsMap ==
        MapOf([k \in 1..Len(followerPositions) |->
                 [key |-> followerPositions[k].coin, value |-> followerPositions[k]]])
      targets == computeTargets(aggregatedLeader, followerPositionsMap, copyRatio)
  IN IF mode = "entry-only"
       THEN SelectSeq(targets, LAMBDA t :
              \/ Abs(t.currentSize) = 0 /\ Abs(t.targetSize) # 0
              \/ Abs(t.currentSize) # 0 /\ Abs(t.targetSize) = 0)
     ELSE IF mode = "signals-only" THEN <<>>
     ELSE targets

\* step 7 of tick: the orders of the targets that have a price
RECURSIVE OrdersOfTick(_, _, _, _)
OrdersOfTick(targets, marketData, cap, timeInForce) ==
  IF targets = <<>> THEN <<>>
  ELSE LET markPrice == MarkPriceOf(marketData, targets[1].coin)
       IN (IF markPrice = 0 THEN <<>>
           ELSE generateOrders(targets[1], markPrice, cap, timeInForce))
          \o OrdersOfTick(Tail(targets), marketData, cap, timeInForce)

\* getPositions(leader) returned: failed is the collaborator's failure, which
\* it reports as the empty list
LeaderFetched(positions, failed) ==
  /\ tick.pc = "leaders"
  /\ failed => positions = <<>>
  /\ LET leader == tick.toFetch[1]
         map == MapPut(tick.leaderPositionsMap, leader, positions)
     IN /\ previousLeaderPositions' = MapPut(previousLeaderPositions, leader, positions)
        /\ tickLog' = [tickLog EXCEPT !.failedLeaders =
                         IF failed THEN @ \cup {leader} ELSE @ \ {leader}]
        /\ tick' = [tick EXCEPT
                      !.toFetch = Tail(@),
                      !.leaderPositionsMap = map,
                      !.pc = IF Tail(tick.toFetch) # <<>> THEN "leaders"
                             ELSE IF Len(map) = 0 THEN "returned"
                             ELSE "follower"]
  /\ UNCHANGED <<running, enabled, ratio, notionalCap, tif, leaderAddresses,
                 copyMode, loops>>

\* getPositions(followerAddress) returned: targets are computed
FollowerFetched(positions, failed) ==
  /\ tick.pc = "follower"
  /\ failed => positions = <<>>
  /\ tickLog' = [tickLog EXCEPT !.followerFailed = failed]
  /\ LET targets == TargetsOfTick(tick.leaderPositionsMap, positions, ratio, copyMode)
     IN tick' = [tick EXCEPT !.followerPositions = positions,
                             !.targets = targets,
                             !.pc = IF targets = <<>> THEN "returned" ELSE "market"]
  /\ UNCHANGED <<running, enabled, ratio, notionalCap, tif, leaderAddresses,
                 copyMode, loops, previousLeaderPositions>>

\* the follower fetch threw: caught, tick returns
FollowerFetchThrows ==
  /\ tick.pc = "follower"
  /\ tickLog' = [tickLog EXCEPT !.followerFailed = TRUE]
  /\ tick' = [tick EXCEPT !.pc = "returned"]
  /\ UNCHANGED <<running, enabled, ratio, notionalCap, tif, leaderAddresses,
                 copyMode, loops, previousLeaderPositions>>

\* an await of the tick outside its try blocks (getMarketData, getAccountInfo)
\* rejects: tick() throws to the catch of start()
TickThrows ==
  /\ tick.pc \in {"market", "account"}
  /\ tick' = [tick EXCEPT !.pc = "threw"]
  /\ tickLog' = [tickLog EXCEPT !.threw = TRUE]
  /\ UNCHANGED <<running, enabled, ratio, notionalCap, tif, leaderAddresses,
                 copyMode, loops, previousLeaderPositions>>

\* getMarketData returned: orders are generated
MarketDataFetched(marketData) ==
  /\ tick.pc = "market"
  /\ LET allOrders == OrdersOfTick(tick.targets, marketData, notionalCap, tif)
     IN tick' = [tick EXCEPT !.marketData = marketData,
                             !.allOrders = allOrders,
                             !.pc = IF allOrders = <<>> THEN "returned" ELSE "account"]
  /\ UNCHANGED <<running, enabled, ratio, notionalCap, tif, leaderAddresses,
                 copyMode, loops, previousLeaderPositions, tickLog>>

\* getAccountInfo returned: executor.executeOrders is called
AccountInfoFetched(totalNotional) ==
  /\ tick.pc = "account"
  /\ executeOrders(tick.allOrders, tick.followerPositions, totalNotional,
                   tick.marketData)
  /\ tick' = [tick EXCEPT !.pc = "executing"]
  /\ UNCHANGED <<running, enabled, ratio, notionalCap, tif, leaderAddresses,
                 copyMode, loops, previousLeaderPositions, tickLog>>

\* executeOrders returned its result: tick logs it and returns
ExecutionReturns ==
  /\ tick.pc = "executing"
  /\ execPc = "idle"
  /\ tick' = [tick EXCEPT !.pc = "returned"]
  /\ UNCHANGED <<running, enabled, ratio, notionalCap, tif, leaderAddresses,
                 copyMode, loops, previousLeaderPositions, tickLog>>

\* the loop's and the operator's steps leave the tick in flight alone
TickIdle == UNCHANGED <<tick, previousLeaderPositions, tickLog>>
\* the executor's steps leave the loop alone
ExecAlone == LoopIdle /\ Untraced
\* the loop's steps leave the engine and the executor alone
TickAlone == UNCHANGED <<now, engineVars, observerVars, execVars, trace, probeVars>>

\* updateParams calls that set one field
NoParams ==
  [ratio |-> <<>>, notionalCap |-> <<>>, tif |-> <<>>, leaderAddresses |-> <<>>,
   copyMode |-> <<>>]
TickParams ==
  {[NoParams EXCEPT !.ratio = <<v>>] : v \in Ratios}
    \cup {[NoParams EXCEPT !.notionalCap = <<v>>] : v \in LoopNotionalCaps}
    \cup {[NoParams EXCEPT !.tif = <<v>>] : v \in Tifs}
    \cup {[NoParams EXCEPT !.leaderAddresses = <<v>>] : v \in LeaderLists}
    \cup {[NoParams EXCEPT !.copyMode = <<v>>] : v \in CopyModes}

\* the run is followed up to its MaxBatches-th executeOrders call
MoreBatches == batches < MaxBatches

InitTick ==
  /\ now = Epoch
  /\ maxLeverage = 5 /\ maxTotalNotional = 30 /\ cooldownMs = 0
  /\ RiskEngineInit
  /\ ExecutorInit
  /\ ratio = 1 /\ notionalCap = 0
  /\ LoopInit
  /\ execAt = [c \in Coins |-> NoTime]
  /\ panicAsked = FALSE
  /\ errorTimes = <<>>
  /\ resetAt = now
  /\ trace = <<>>
  /\ ProbeInit

NextTick ==
  \/ start /\ MoreBatches /\ IterationBegins /\ UNCHANGED previousLeaderPositions
       /\ TickAlone
  \/ startWhileRunning /\ TickAlone
  \/ enable /\ TickIdle /\ TickAlone
  \/ /\ disable
     /\ tickLog' = [tickLog EXCEPT !.disabledInFlight =
                      @ \/ tick.pc \notin {"none", "returned", "threw"}]
     /\ UNCHANGED <<tick, previousLeaderPositions>>
     /\ TickAlone
  \/ \E params \in TickParams :
       /\ updateParams(params)
       /\ tickLog.updates < MaxUpdates
       /\ tickLog' = [tickLog EXCEPT !.updates = @ + 1]
       /\ UNCHANGED <<tick, previousLeaderPositions>>
       /\ TickAlone
  \/ \E l \in LoopIds :
       /\ TickSettles(l)
       /\ tick.pc \in {"returned", "threw"}
       /\ tick' = NoTick
       /\ UNCHANGED <<previousLeaderPositions, tickLog>>
       /\ TickAlone
  \/ \E l \in LoopIds :
       /\ LoopWakes(l)
       /\ MoreBatches
       /\ IF running THEN IterationBegins ELSE UNCHANGED <<tick, tickLog>>
       /\ UNCHANGED previousLeaderPositions
       /\ TickAlone
  \/ \E positions \in LeaderFetches, failed \in BOOLEAN :
       LeaderFetched(positions, failed) /\ TickAlone
  \/ \E positions \in FollowerFetches, failed \in BOOLEAN :
       FollowerFetched(positions, failed) /\ TickAlone
  \/ FollowerFetchThrows /\ TickAlone
  \/ TickThrows /\ TickAlone
  \/ \E marketData \in TickMarketDatas({tick.targets[k].coin : k \in 1..Len(tick.targets)}) :
       MarketDataFetched(marketData) /\ TickAlone
  \/ \E totalNotional \in Notionals : AccountInfoFetched(totalNotional) /\ Untraced
  \/ ExecutionReturns /\ TickAlone
  \/ RejectByRisk /\ ExecAlone
  \/ ExecuteDryRun /\ ExecAlone
  \/ Submit /\ ExecAlone
  \/ CatchUnexpected /\ ExecAlone
  \/ PlaceOrderSucceeds /\ ExecAlone
  \/ \E error \in {ExchangeError} : PlaceOrderFailsRetry(error) /\ ExecAlone
  \/ \E error \in {ExchangeError} : PlaceOrderFailsLast(error) /\ ExecAlone
  \/ SleepDone /\ ExecAlone
  \/ TimerFires /\ UNCHANGED <<engineVars, observerVars, execVars>> /\ ExecAlone

SpecTick == InitTick /\ [][NextTick]_vars

\* the tick has computed its targets, resp. generated its orders
HasTargets == tick.pc \in {"market", "account", "executing"}
HasOrders == tick.pc \in {"account", "executing"}

\* the leaders of the tick: those fetched, then those still to fetch
LeadersOfTick == MapKeys(tick.leaderPositionsMap) \o tick.toFetch

\* C11: the targets and orders of a tick are those that the ratio, copy mode,
\* notional cap and time-in-force in force when the tick began produce, and
\* its leaders are the leader list of that moment, whatever updateParams
\* calls interleave with the tick's awaits.
C11_ParamsReadAtTickStart ==
  /\ tick.pc \in {"leaders", "follower"} =>
       LeadersOfTick = tickLog.began.leaderAddresses
  /\ HasTargets =>
       tick.targets = TargetsOfTick(tick.leaderPositionsMap, tick.followerPositions,
                                    tickLog.began.ratio, tickLog.began.copyMode)
  /\ HasOrders =>
       tick.allOrders = OrdersOfTick(tick.targets, tick.marketData,
                                     tickLog.began.notionalCap, tickLog.began.tif)

\* the part of C11 that the code keeps: the leader list is the one of the
\* tick's beginning
LeadersReadAtTickStart ==
  tick.pc \in {"leaders", "follower"} =>
    LeadersOfTick = tickLog.began.leaderAddresses

\* a tick() call begins in this step
TickBeginsNow == tick.pc = "none" /\ tick'.pc \in {"leaders", "returned"}

\* C12: a newly constructed loop is disabled; a tick begins only in a step
\* of the loop that finds enabled true; when the loop fires (start, or the
\* end of a sleep with running true) a tick begins if enabled is true and
\* nothing of the tick happens otherwise; enable() and disable() change
\* neither the tick in flight nor the position of the loop nor the executor.
C12_EnabledGatesTicks ==
  /\ ~enabled /\ tick.pc = "none"
  /\ [][/\ TickBeginsNow => enabled /\ enabled'
        /\ \A l \in LoopIds :
             ((LoopWakes(l) /\ running) \/ (start /\ loops'[l] # loops[l])) =>
               IF enabled THEN TickBeginsNow /\ loops'[l] = "tick"
                          ELSE tick' = tick /\ tick.pc = "none" /\ loops'[l] = "sleep"
        /\ enabled' # enabled =>
             /\ tick' = tick /\ loops' = loops
             /\ UNCHANGED <<engineVars, execVars, previousLeaderPositions>>
       ]_vars

\* disable() was called while a tick was in flight, and that tick went on to
\* execute an order and return
C12_Witness ==
  /\ ~enabled
  /\ tickLog.disabledInFlight
  /\ tick.pc = "returned"
  /\ result.executedOrders # <<>>

\* every leader of the tick has been fetched and every fetch failed (or
\* there was no leader)
NoLeaderData ==
  /\ tick.pc \notin {"none", "leaders"}
  /\ \A k \in 1..Len(tick.leaderPositionsMap) :
       tick.leaderPositionsMap[k].key \in tickLog.failedLeaders

\* C13: when no leader returned position data (every leader fetch failed,
\* or the leader list is empty) the tick is aborted before the follower
\* fetch: it computes no target and generates no order.
C13_NoLeaderDataAborts ==
  NoLeaderData =>
    /\ tick.pc = "returned"
    /\ tick.targets = <<>>
    /\ tick.allOrders = <<>>

\* C14: when the follower fetch failed (an empty list from the collaborator,
\* or an exception) the tick is aborted: it computes no target and generates
\* no order.
C14_FollowerFailureAborts ==
  tickLog.followerFailed =>
    /\ tick.pc \in {"none", "returned"}
    /\ tick.targets = <<>>
    /\ tick.allOrders = <<>>

\* what the failed fetches lead to: an order is executed in a tick in which
\* every leader fetch failed, resp. in which the follower fetch failed
OrderExecutedWithoutLeaderData ==
  NoLeaderData /\ tick.pc = "executing" /\ result.executedOrders # <<>>
OrderExecutedWithoutFollowerData ==
  tickLog.followerFailed /\ tick.pc = "executing" /\ result.executedOrders # <<>>

(***************************************************************************)
(* Specification of the Executor's counters: one executeOrders call on an  *)
(* Executor that has counted earlier calls, with getCounters and           *)
(* resetCounters called by the operator at the awaits                      *)
(***************************************************************************)
CounterNames == {"execCount", "rejectCount", "errorCount"}
ZeroCounters == [execCount |-> 0, rejectCount |-> 0, errorCount |-> 0]

\* what the counters can hold when the call begins
EarlierCounters == {ZeroCounters, [execCount |-> 3, rejectCount |-> 2, errorCount |-> 1]}

\* variant: getCounters hands out the counters object itself
getCounters_ReturnsField ==
  /\ returnedCounters' = [ref |-> "counters", value |-> counters]
  /\ UNCHANGED <<now, engineVars, observerVars, execVars>>

\* getCounters(): return { ...this.counters }
getCounters ==
  /\ returnedCounters' = [ref |-> "copy", value |-> counters]
  /\ UNCHANGED <<now, engineVars, observerVars, execVars>>

\* the caller of getCounters assigns to a property of the object it got; the
\* write lands in the Executor's counters only if that object is the
\* counters object
CallerWrites(name, v) ==
  /\ returnedCounters.ref # "none"
  /\ returnedCounters' = [returnedCounters EXCEPT !.value[name] = v]
  /\ IF returnedCounters.ref = "counters"
       THEN counters' = [counters EXCEPT ![name] = v]
       ELSE counters' = counters
  /\ UNCHANGED <<now, engineVars, observerVars, dryRunLogOnly, call, result,
                 execPc, orderIdx, attempt, lastError, wakeAt, batches, checkedCap>>

\* the value the caller writes
WrittenValue == 9

InitCount ==
  /\ now = Epoch
  /\ maxLeverage = 5 /\ maxTotalNotional = 30 /\ cooldownMs = 2 * retryDelayMs
  /\ RiskEngineInit
  /\ ExecutorInit
  /\ ratio = 1 /\ notionalCap = 0
  /\ LoopInit
  /\ execAt = [c \in Coins |-> NoTime]
  /\ panicAsked = FALSE
  /\ errorTimes = <<>>
  /\ resetAt = now
  /\ trace = <<>>
  /\ ProbeInit

\* an Executor that has counted earlier calls
HasCounted ==
  /\ execPc = "idle" /\ batches = 0 /\ counters = ZeroCounters
  /\ \E earlier \in EarlierCounters \ {ZeroCounters} : counters' = earlier
  /\ UNCHANGED <<now, engineVars, observerVars, dryRunLogOnly, call, result,
                 execPc, orderIdx, attempt, lastError, wakeAt, batches, checkedCap>>

\* the steps of the call leave the observers of the counters alone
Uncounted == UNCHANGED <<trace, probeVars>>

NextCount ==
  \/ HasCounted /\ LoopIdle /\ Uncounted
  \/ \E orders \in Batches, currentTotalNotional \in Notionals,
        marketData \in MarketDatas :
       /\ executeOrders(orders, <<>>, currentTotalNotional, marketData)
       /\ countersAtCall' = <<counters>>
       /\ UNCHANGED <<trace, returnedCounters, pure, surfaceVars>>
       /\ LoopIdle
  \/ SkipNoPrice /\ LoopIdle /\ Uncounted
  \/ RejectByRisk /\ LoopIdle /\ Uncounted
  \/ ExecuteDryRun /\ LoopIdle /\ Uncounted
  \/ Submit /\ LoopIdle /\ Uncounted
  \/ CatchUnexpected /\ LoopIdle /\ Uncounted
  \/ PlaceOrderSucceeds /\ LoopIdle /\ Uncounted
  \/ PlaceOrderFailsRetry(ExchangeError) /\ LoopIdle /\ Uncounted
  \/ PlaceOrderFailsLast(ExchangeError) /\ LoopIdle /\ Uncounted
  \/ SleepDone /\ LoopIdle /\ Uncounted
  \/ TimerFires /\ UNCHANGED <<engineVars, observerVars, execVars>>
       /\ LoopIdle /\ Uncounted
  \/ /\ AtAwait /\ returnedCounters.ref = "none"
     /\ getCounters
     /\ UNCHANGED <<trace, countersAtCall, pure, surfaceVars>> /\ LoopIdle
  \/ \E name \in CounterNames :
       /\ AtAwait
       /\ CallerWrites(name, WrittenValue)
       /\ UNCHANGED <<trace, countersAtCall, pure, surfaceVars>> /\ LoopIdle
  \/ /\ AtAwait /\ counters # ZeroCounters
     /\ resetCounters
     /\ countersAtCall' = <<>>
     /\ UNCHANGED <<trace, returnedCounters, pure, surfaceVars>> /\ LoopIdle

SpecCount == InitCount /\ [][NextCount]_vars

\* the entries the call has added to its result so far
Entries ==
  [execCount |-> Len(result.executedOrders),
   rejectCount |-> Len(result.rejectedOrders),
   errorCount |-> Len(result.errors)]

\* the orders the for loop of executeOrders is done with
OrdersDone == IF execPc = "idle" THEN Len(call.orders) ELSE orderIdx - 1

Opens(t) == Abs(t.currentSize) = 0 /\ Abs(t.targetSize) # 0
Closes(t) == Abs(t.currentSize) # 0 /\ Abs(t.targetSize) = 0
\* the target changes the size of a position, resp. takes it to the other side
Resizes(t) == t.currentSize * t.targetSize > 0
Flips(t) == t.currentSize * t.targetSize < 0

\* the targets of steps 3 to 5 of the tick, before the copy-mode filter
TargetsBeforeFilter(leaderPositionsMap, followerPositions, copyRatio) ==
  LET aggregated == aggregate(leaderPositionsMap)
      withOrphans == SetOrphans(aggregated,
                       detectOrphanedPositions(followerPositions, aggregated))
      followerPositionsMap ==
        MapOf([k \in 1..Len(followerPositions) |->
                 [key |-> followerPositions[k].coin, value |-> followerPositions[k]]])
  IN computeTargets(withOrphans, followerPositionsMap, copyRatio)

\* C22: when the tick filters its targets, in signals-only mode it keeps
\* none and returns; in entry-only mode it keeps exactly the targets that
\* open or fully close a position, never a resize or a sign flip; in full
\* mode it keeps them all.  Orders are generated only from the targets kept,
\* and only those orders are handed to the executor.
C22_CopyModeFilter ==
  /\ [](/\ HasOrders =>
             /\ tick.allOrders # <<>>
             /\ \A k \in 1..Len(tick.allOrders) :
                  \E j \in 1..Len(tick.targets) :
                    tick.targets[j].coin = tick.allOrders[k].coin
        /\ tick.pc = "executing" => call.orders = tick.allOrders
        /\ tick.targets = <<>> => tick.allOrders = <<>>)
  /\ [][\A positions \in FollowerFetches, failed \in BOOLEAN :
          FollowerFetched(positions, failed) =>
            LET before == TargetsBeforeFilter(tick.leaderPositionsMap, positions, ratio)
                kept == tick'.targets
            IN /\ copyMode = "signals-only" => kept = <<>> /\ tick'.pc = "returned"
               /\ copyMode = "entry-only" =>
                    /\ kept = SelectSeq(before, LAMBDA t : Opens(t) \/ Closes(t))
                    /\ \A k \in 1..Len(kept) : ~Resizes(kept[k]) /\ ~Flips(kept[k])
               /\ copyMode = "full" => kept = before
       ]_vars

\* a tick in entry-only mode has dropped a resize or a sign flip, resp. has
\* executed the order of an opening or of a close
ResizeOrFlipSeen ==
  \E k \in 1..Len(TargetsBeforeFilter(tick.leaderPositionsMap,
                                      tick.followerPositions, ratio)) :
    LET t == TargetsBeforeFilter(tick.leaderPositionsMap,
                                 tick.followerPositions, ratio)[k]
    IN Resizes(t) \/ Flips(t)
C22_Dropped ==
  /\ tick.pc = "returned" /\ tick.followerPositions # <<>>
  /\ copyMode = "entry-only" /\ tickLog.began.copyMode = "entry-only"
  /\ ResizeOrFlipSeen /\ tick.targets = <<>>
C22_Witness ==
  /\ tick.pc = "executing" /\ result.executedOrders # <<>>
  /\ copyMode = "entry-only" /\ tickLog.began.copyMode = "entry-only"
  /\ \E k \in 1..Len(tick.targets) : Closes(tick.targets[k])

(***************************************************************************)
(* Specification of the pure functions of Targeting and Aggregator, and of *)
(* the synchronous computation of the tick (steps 3 to 7): one call, its   *)
(* arguments drawn from the domains below.  In this specification sizes    *)
(* are counted in hundredths of a coin and notionals in hundredths of a    *)
(* dollar: 28 is 0.28, and every size other than 0 is above 0.0001.        *)
(***************************************************************************)
PureLeaderSizes == {-2, 0, 3}
PureFollowerSizes == {-1, 0, 2}
PureRatios == {-1, 0, 1, 2}
PureTargetSizes == {-50, 0, 28, 50, 100}
PureCurrentSizes == {-50, 0, 50, 100}
PureMarkPrices == {10, 25}
PureNotionalCaps == {-100, 0, 500, 700}

\* The pairs <<notionalCap, markPrice>> of these domains for which
\* (notionalCap / markPrice) * markPrice, evaluated in IEEE-754 doubles, is
\* greater than notionalCap: 7 / 25 * 25 = 7.000000000000001.
Ieee754ChunkRoundsAbove == {<<700, 25>>}

Pos(coin, size) == [coin |-> coin, size |-> size, marginUsed |-> 0]
Entry(coin, size) == [key |-> coin, value |-> [coin |-> coin, size |-> size]]

\* Map<string, Position> arguments
AggregatedMaps ==
  {<<>>, <<Entry("BTC", 2)>>, <<Entry("BTC", 2), Entry("ETH", -2)>>,
   <<Entry("ETH", 0)>>, <<Entry("ETH", 4), Entry("BTC", -2)>>}
FollowerMaps ==
  {<<>>, <<Entry("BTC", 4)>>, <<Entry("BTC", 2)>>,
   <<Entry("ETH", -2), Entry("BTC", 4)>>, <<Entry("ETH", -4)>>}

\* Map<string, Position[]> arguments: each of two leaders is absent, holds
\* nothing, or holds one of the lists
LeaderPositionMaps ==
  {(IF l1 = <<>> THEN <<>> ELSE <<[key |-> "leader1", value |-> l1[1]]>>)
     \o (IF l2 = <<>> THEN <<>> ELSE <<[key |-> "leader2", value |-> l2[1]]>>) :
   l1 \in {<<>>, <<<<>>>>, << <<Pos("BTC", 2)>> >>,
           << <<Pos("BTC", 4), Pos("ETH", 2)>> >>},
   l2 \in {<<>>, <<<<>>>>, << <<Pos("BTC", 4)>> >>, << <<Pos("ETH", -2)>> >>,
           << <<Pos("BTC", -2)>> >>}}

\* Position[] arguments
FollowerLists ==
  {<<>>, <<Pos("BTC", 2)>>, <<Pos("ETH", -1), Pos("BTC", 2)>>, <<Pos("ETH", 0)>>,
   <<Pos("BTC", -2)>>}

PureTargets ==
  {[coin |-> "BTC", targetSize |-> t, currentSize |-> c, delta |-> t - c] :
     t \in PureTargetSizes, c \in PureCurrentSizes}

Calling(op, args) == [op |-> op, args |-> args, returned |-> <<>>]

CalculateTargetCalls ==
  {Calling("calculateTarget",
           [leaderSize |-> l, currentFollowerSize |-> c, ratio |-> r]) :
     l \in PureLeaderSizes, c \in PureFollowerSizes, r \in PureRatios}
ComputeTargetsCalls ==
  {Calling("computeTargets",
           [aggregatedLeader |-> a, followerPositions |-> f, ratio |-> r]) :
     a \in AggregatedMaps, f \in FollowerMaps, r \in Ratios}
GenerateOrdersCalls ==
  {Calling("generateOrders",
           [target |-> t, markPrice |-> p, notionalCap |-> c, tif |-> x]) :
     t \in PureTargets, p \in PureMarkPrices, c \in PureNotionalCaps, x \in Tifs}
AggregateCalls ==
  {Calling("aggregate", [leaderPositions |-> m]) : m \in LeaderPositionMaps}
DetectOrphanedPositionsCalls ==
  {Calling("detectOrphanedPositions",
           [followerPositions |-> f, aggregatedLeader |-> a]) :
     f \in FollowerLists, a \in AggregatedMaps}
TickComputationCalls ==
  {Calling("tick",
           [leaderPositionsMap |-> m, followerPositions |-> f, ratio |-> r,
            copyMode |-> mode, marketData |-> d, notionalCap |-> c, tif |-> "IOC"]) :
     m \in LeaderPositionMaps \ {<<>>}, f \in FollowerLists, r \in Ratios,
     mode \in CopyModes, d \in TickMarketDatas(Coins), c \in LoopNotionalCaps}

\* generateOrders for a target of the follower's position, followed by the
\* risk check of each order as the executor calls it; sizes in coins, prices
\* and notionals in dollars
CheckedTargets ==
  {[coin |-> "BTC", targetSize |-> t, currentSize |-> c, delta |-> t - c] :
     t \in {-4, -1, 0, 1, 4}, c \in {-2, 0, 2}}
GenerateAndCheckCalls ==
  {Calling("generateAndCheck",
           [target |-> t, markPrice |-> 10, notionalCap |-> c, tif |-> "IOC"]) :
     t \in CheckedTargets, c \in LoopNotionalCaps}

\* the follower's positions as the executor passes them to checkOrder
PositionsOf(target) ==
  IF target.currentSize = 0 THEN <<>>
  ELSE <<[coin |-> target.coin, size |-> target.currentSize, marginUsed |-> 2]>>

\* each order of generateOrders with the answer of checkOrder
GenerateAndCheck(target, markPrice, cap, timeInForce) ==
  LET orders == generateOrders(target, markPrice, cap, timeInForce)
  IN [k \in 1..Len(orders) |->
        [order |-> orders[k],
         check |-> checkOrder([coin |-> orders[k].coin, side |-> orders[k].side,
                               size |-> orders[k].size,
                               reduceOnly |-> orders[k].reduceOnly],
                              PositionsOf(target), 0, markPrice)]]

\* the risk engine's state changes before the orders are generated
BeforeGenerateAndCheck == pure.op = "generateAndCheck" /\ pure.returned = <<>>

InitPure ==
  /\ now = Epoch
  /\ maxLeverage = 5 /\ maxTotalNotional = 30 /\ cooldownMs = 0
  /\ RiskEngineInit
  /\ dryRunLogOnly = FALSE
  /\ ExecutorInit
  /\ ratio = 1 /\ notionalCap = 0
  /\ LoopInit
  /\ execAt = [c \in Coins |-> NoTime]
  /\ panicAsked = FALSE
  /\ errorTimes = <<>>
  /\ resetAt = now
  /\ trace = <<>>
  /\ countersAtCall = <<>>
  /\ returnedCounters = [ref |-> "none", value |-> ZeroCounters]
  /\ botLog = NoCommand
  /\ store = NoStore
  /\ \/ pure \in CalculateTargetCalls
     \/ pure \in ComputeTargetsCalls
     \/ pure \in GenerateOrdersCalls
     \/ pure \in AggregateCalls
     \/ pure \in DetectOrphanedPositionsCalls
     \/ pure \in TickComputationCalls
     \/ pure \in GenerateAndCheckCalls

\* the call returns value; nothing else changes (the functions are pure)
Returns(op, value) ==
  /\ pure.op = op
  /\ pure.returned = <<>>
  /\ pure' = [pure EXCEPT !.returned = <<value>>]
  /\ UNCHANGED <<now, engineVars, observerVars, execVars, loopVars, trace,
                 countersAtCall, returnedCounters, surfaceVars>>

NextPure ==
  \/ Returns("calculateTarget",
             calculateTarget(pure.args.leaderSize, pure.args.currentFollowerSize,
                             pure.args.ratio))
  \/ Returns("computeTargets",
             computeTargets(pure.args.aggregatedLeader, pure.args.followerPositions,
                            pure.args.ratio))
  \/ Returns("generateOrders",
             generateOrders(pure.args.target, pure.args.markPrice,
                            pure.args.notionalCap, pure.args.tif))
  \/ Returns("aggregate", aggregate(pure.args.leaderPositions))
  \/ Returns("detectOrphanedPositions",
             detectOrphanedPositions(pure.args.followerPositions,
                                     pure.args.aggregatedLeader))
  \/ Returns("tick",
             LET targets == TargetsOfTick(pure.args.leaderPositionsMap,
                                          pure.args.followerPositions,
                                          pure.args.ratio, pure.args.copyMode)
             IN [targets |-> targets,
                 allOrders |-> OrdersOfTick(targets, pure.args.marketData,
                                            pure.args.notionalCap, pure.args.tif)])

  \/ Returns("generateAndCheck",
             GenerateAndCheck(pure.args.target, pure.args.markPrice,
                              pure.args.notionalCap, pure.args.tif))
  \/ BeforeGenerateAndCheck /\ enablePanicMode /\ panicAsked' = TRUE
       /\ UNCHANGED <<now, execAt, errorTimes, resetAt>> /\ EngineAlone
  \/ BeforeGenerateAndCheck /\ recordError /\ UNCHANGED <<now, observerVars>>
       /\ EngineAlone

SpecPure == InitPure /\ [][NextPure]_vars

\* op has returned
Returned(op) == pure.op = op /\ pure.returned # <<>>

\* the orders generateOrders returned, and the target it was given
OrdersReturned == pure.returned[1]
TargetGiven == pure.args.target

\* C23: every order of a target carries reduceOnly = (targetSize <
\* currentSize) when currentSize > 0, (targetSize > currentSize) when
\* currentSize < 0, and false when currentSize = 0; sign flips included, and
\* every chunk of the target carries the same flag.
C23_ReduceOnlyLiteralRule ==
  Returned("generateOrders") =>
    LET current == TargetGiven.currentSize
        target == TargetGiven.targetSize
    IN \A k \in 1..Len(OrdersReturned) :
         /\ current > 0 => OrdersReturned[k].reduceOnly = (target < current)
         /\ current < 0 => OrdersReturned[k].reduceOnly = (target > current)
         /\ current = 0 => OrdersReturned[k].reduceOnly = FALSE
         /\ OrdersReturned[k].reduceOnly = OrdersReturned[1].reduceOnly

\* a sign flip (long 50 to short 50) was chunked and flagged reduce-only
C23_Witness ==
  /\ Returned("generateOrders")
  /\ TargetGiven.currentSize = 50 /\ TargetGiven.targetSize = -50
  /\ Len(OrdersReturned) > 1
  /\ OrdersReturned[1].reduceOnly

\* the order moves the position toward zero without crossing it
TowardZeroWithoutCrossing(t) ==
  /\ t.currentSize * t.targetSize >= 0
  /\ Abs(t.targetSize) < Abs(t.currentSize)

\* C24: an order generated by generateOrders has reduceOnly = true exactly
\* when it moves the position toward zero without crossing it; an order that
\* takes the position through zero to the other side is never flagged.
C24_ReduceOnlyNeverCrosses ==
  Returned("generateOrders") =>
    \A k \in 1..Len(OrdersReturned) :
      OrdersReturned[k].reduceOnly = TowardZeroWithoutCrossing(TargetGiven)

\* size * markPrice > notionalCap as the doubles of the program evaluate it
\* (a size equal to notionalCap / markPrice is the double that the division
\* rounds to)
ExceedsCapInDoubles(size, markPrice, cap) ==
  \/ size * markPrice > cap
  \/ size * markPrice = cap /\ <<cap, markPrice>> \in Ieee754ChunkRoundsAbove

\* what C25 states apart from the per-order ceiling
ChunksAreSound ==
  LET delta == TargetGiven.delta
      sizes == [k \in 1..Len(OrdersReturned) |-> OrdersReturned[k].size]
  IN /\ \A k \in 1..Len(OrdersReturned) :
          /\ OrdersReturned[k].coin = TargetGiven.coin
          /\ OrdersReturned[k].side = OrdersReturned[1].side
          /\ OrdersReturned[k].tif = pure.args.tif
          /\ OrdersReturned[k].reduceOnly = OrdersReturned[1].reduceOnly
     /\ pure.args.notionalCap > 0 =>
          /\ Sum(sizes) = Abs(delta)
          /\ Abs(delta) * pure.args.markPrice <= pure.args.notionalCap =>
               Len(OrdersReturned) = 1
     /\ pure.args.notionalCap <= 0 =>
          Len(OrdersReturned) = 1 /\ OrdersReturned[1].size = Abs(delta)

C26_SideAndSize ==
  /\ Returned("generateOrders") =>
       \A k \in 1..Len(OrdersReturned) :
         OrdersReturned[k].side = IF TargetGiven.delta > 0 THEN "buy" ELSE "sell"
  /\ Returned("tick") =>
       \A k \in 1..Len(pure.returned[1].allOrders) :
         /\ pure.returned[1].allOrders[k].size > 0
         /\ \E j \in 1..Len(pure.returned[1].targets) :
              /\ pure.returned[1].targets[j].coin = pure.returned[1].allOrders[k].coin
              /\ pure.returned[1].allOrders[k].side =
                   IF pure.returned[1].targets[j].delta > 0 THEN "buy" ELSE "sell"

\* generateOrders was called directly with a delta of 0 and returned a sell
\* of size 0
C26_Witness ==
  /\ Returned("generateOrders")
  /\ TargetGiven.delta = 0
  /\ TargetGiven.currentSize # 0
  /\ Len(OrdersReturned) = 1
  /\ OrdersReturned[1].side = "sell"
  /\ OrdersReturned[1].size = 0

\* a tick generated buys and sells
C26_TickOrders ==
  /\ Returned("tick")
  /\ \E k, j \in 1..Len(pure.returned[1].allOrders) :
       /\ pure.returned[1].allOrders[k].side = "buy"
       /\ pure.returned[1].allOrders[j].side = "sell"

\* map.get(coin)?.size || 0
SizeIn(map, coin) == IF MapHas(map, coin) THEN MapGet(map, coin).size ELSE 0

\* the keys of a Map, as a set
KeySet(map) == {map[k].key : k \in 1..Len(map)}

\* C27: computeTargets returns exactly one target for each instrument of the
\* union of the keys of the two maps whose |delta| is above the dead zone,
\* an instrument absent from a map counting as size 0 there, and no other
\* target.
C27_ComputeTargets ==
  Returned("computeTargets") =>
    LET targets == pure.returned[1]
        leader == pure.args.aggregatedLeader
        follower == pure.args.followerPositions
        Delta(coin) == SizeIn(leader, coin) * pure.args.ratio - SizeIn(follower, coin)
    IN /\ \A coin \in Coins :
            Cardinality({k \in 1..Len(targets) : targets[k].coin = coin})
              = IF coin \in KeySet(leader) \cup KeySet(follower) /\ Delta(coin) # 0
                  THEN 1 ELSE 0
       /\ \A k \in 1..Len(targets) :
            /\ targets[k].coin \in Coins
            /\ targets[k].targetSize = SizeIn(leader, targets[k].coin) * pure.args.ratio
            /\ targets[k].currentSize = SizeIn(follower, targets[k].coin)
            /\ targets[k].delta = Delta(targets[k].coin)

\* one instrument of the leader's map is left out for a zero delta, and an
\* instrument only the follower holds gets a target
C27_Witness ==
  /\ Returned("computeTargets")
  /\ Len(pure.returned[1]) = 1
  /\ pure.returned[1][1].coin \notin KeySet(pure.args.aggregatedLeader)
  /\ pure.returned[1][1].coin \in KeySet(pure.args.followerPositions)
  /\ \E coin \in KeySet(pure.args.aggregatedLeader) :
       /\ SizeIn(pure.args.aggregatedLeader, coin) # 0
       /\ \A k \in 1..Len(pure.returned[1]) : pure.returned[1][k].coin # coin

\* the instruments held by at least one leader
LeaderCoins(leaderPositions) ==
  {coin \in Coins :
     \E k \in 1..Len(leaderPositions) :
       \E j \in 1..Len(leaderPositions[k].value) :
         leaderPositions[k].value[j].coin = coin}

\* the instruments the follower holds that have no entry among keys
OrphanCoins(followerPositions, keys) ==
  {coin \in Coins \ keys :
     \E k \in 1..Len(followerPositions) :
       followerPositions[k].coin = coin /\ followerPositions[k].size # 0}

\* C28: detectOrphanedPositions returns exactly the follower's instruments
\* with a size outside the dead zone that have no entry in the aggregated
\* leader map; in a tick each of them gets a target with targetSize 0 and
\* delta = -currentSize from computeTargets, also when no leader holds
\* anything.
C28_Orphans ==
  /\ Returned("detectOrphanedPositions") =>
       /\ {pure.returned[1][k] : k \in 1..Len(pure.returned[1])}
            = OrphanCoins(pure.args.followerPositions,
                          KeySet(pure.args.aggregatedLeader))
       /\ Len(pure.returned[1])
            = Cardinality(OrphanCoins(pure.args.followerPositions,
                                      KeySet(pure.args.aggregatedLeader)))
  /\ (Returned("tick") /\ pure.args.copyMode # "signals-only") =>
       \A k \in 1..Len(pure.args.followerPositions) :
         LET pos == pure.args.followerPositions[k]
         IN pos.coin \in OrphanCoins(pure.args.followerPositions,
                                     LeaderCoins(pure.args.leaderPositionsMap)) =>
              \E j \in 1..Len(pure.returned[1].targets) :
                /\ pure.returned[1].targets[j]
                     = [coin |-> pos.coin, targetSize |-> 0,
                        currentSize |-> pos.size, delta |-> -pos.size]
                /\ \A i \in 1..Len(pure.returned[1].targets) :
                     pure.returned[1].targets[i].coin = pos.coin => i = j

\* no leader holds anything and the tick closes what the follower holds
C28_Witness ==
  /\ Returned("tick")
  /\ pure.args.copyMode = "full"
  /\ LeaderCoins(pure.args.leaderPositionsMap) = {}
  /\ Len(pure.args.leaderPositionsMap) = 2
  /\ Len(pure.args.followerPositions) = 2
  /\ Len(pure.returned[1].targets) = 2
  /\ \A j \in 1..2 : pure.returned[1].targets[j].targetSize = 0
  /\ pure.returned[1].allOrders # <<>>
  /\ \A k \in 1..Len(pure.returned[1].allOrders) :
       pure.returned[1].allOrders[k].reduceOnly

\* detectOrphanedPositions left out a position the leaders hold too and one
\* of size 0, and returned an orphan
C28_Detected ==
  /\ Returned("detectOrphanedPositions")
  /\ Len(pure.returned[1]) = 1
  /\ Len(pure.args.followerPositions) = 2
  /\ pure.args.aggregatedLeader # <<>>

\* C29: calculateTarget returns targetSize = leaderSize * ratio, currentSize
\* = the follower's size and delta = targetSize - currentSize, for every
\* input, ratios outside 0..1 and a leaderSize of 0 included.
C29_CalculateTarget ==
  Returned("calculateTarget") =>
    /\ pure.returned[1].targetSize = pure.args.leaderSize * pure.args.ratio
    /\ pure.returned[1].currentSize = pure.args.currentFollowerSize
    /\ pure.returned[1].delta
         = pure.args.leaderSize * pure.args.ratio - pure.args.currentFollowerSize
    /\ pure.returned[1].delta
         = pure.returned[1].targetSize - pure.returned[1].currentSize
    /\ pure.args.leaderSize = 0 =>
         /\ pure.returned[1].targetSize = 0
         /\ pure.returned[1].delta = -pure.args.currentFollowerSize

\* a ratio outside 0..1 was applied as it is
C29_Witness ==
  /\ Returned("calculateTarget")
  /\ pure.args.ratio = 2
  /\ pure.args.leaderSize = 3
  /\ pure.args.currentFollowerSize = 2
  /\ pure.returned[1].targetSize = 6
  /\ pure.returned[1].delta = 4

\* a negative ratio and a leaderSize of 0 were applied as they are
C29_NegativeRatio ==
  /\ Returned("calculateTarget")
  /\ pure.args.ratio = -1
  /\ pure.args.leaderSize = -2
  /\ pure.returned[1].targetSize = 2

\* the sizes of coin among the leaders that hold it
RECURSIVE HolderSizes(_, _)
HolderSizes(leaderPositions, coin) ==
  IF leaderPositions = <<>> THEN <<>>
  ELSE LET held == SelectSeq(leaderPositions[1].value, LAMBDA pos : pos.coin = coin)
       IN [k \in 1..Len(held) |-> held[k].size]
            \o HolderSizes(Tail(leaderPositions), coin)

\* C30: aggregate returns one entry for each instrument held by at least one
\* leader, and no other; the entry's size is the mean of the sizes of the
\* leaders that hold the instrument, the other leaders not counting.
C30_Aggregate ==
  Returned("aggregate") =>
    LET aggregated == pure.returned[1]
    IN /\ KeySet(aggregated) = LeaderCoins(pure.args.leaderPositions)
       /\ Len(aggregated) = Cardinality(LeaderCoins(pure.args.leaderPositions))
       /\ \A k \in 1..Len(aggregated) :
            LET sizes == HolderSizes(pure.args.leaderPositions, aggregated[k].key)
            IN /\ aggregated[k].value.coin = aggregated[k].key
               /\ aggregated[k].value.size * Len(sizes) = Sum(sizes)

\* of two leaders one holds an instrument the other does not, and its entry
\* is that leader's size; another instrument is held by both
C30_Witness ==
  /\ Returned("aggregate")
  /\ Len(pure.args.leaderPositions) = 2
  /\ Len(pure.returned[1]) = 2
  /\ \E k \in 1..2 :
       /\ Len(HolderSizes(pure.args.leaderPositions, pure.returned[1][k].key)) = 1
       /\ pure.returned[1][k].value.size # 0
       /\ pure.returned[1][k].value.size
            = HolderSizes(pure.args.leaderPositions, pure.returned[1][k].key)[1]
  /\ \E k \in 1..2 :
       Len(HolderSizes(pure.args.leaderPositions, pure.returned[1][k].key)) = 2

(***************************************************************************)
(* Claims C31..C40                                                         *)
(***************************************************************************)
\* a non-reduce-only order that passed the checks before the leverage check
ReachesLeverageCheck(a) ==
  /\ ~a[1].reduceOnly
  /\ ~FailsPanic(a) /\ ~FailsBreaker(a) /\ ~FailsCooldown(a) /\ ~FailsNotional(a)

\* the existing position carries a marginUsed
HasMargin(a) ==
  /\ FindPosition(a[2], a[1].coin) # <<>>
  /\ FindPosition(a[2], a[1].coin)[1].marginUsed > 0

\* |currentSize + size| * markPrice for a buy, |currentSize - size| *
\* markPrice for a sell
ProjectedNotional(a) ==
  LET currentSize == IF FindPosition(a[2], a[1].coin) = <<>> THEN 0
                     ELSE FindPosition(a[2], a[1].coin)[1].size
  IN Abs(IF a[1].side = "buy" THEN currentSize + a[1].size
                              ELSE currentSize - a[1].size) * a[4]

\* with a marginUsed, the order is rejected exactly when the projected
\* leverage exceeds maxLeverage
LeverageWithMargin ==
  \A a \in CheckArgs :
    (ReachesLeverageCheck(a) /\ HasMargin(a)) =>
      (~Result(a).allowed
         <=> ProjectedNotional(a)
               > maxLeverage * FindPosition(a[2], a[1].coin)[1].marginUsed)

\* C31: for a non-reduce-only order that passed the earlier checks, the
\* leverage check never rejects when the follower has no position in the
\* instrument or one without marginUsed, and with a marginUsed > 0 it rejects
\* exactly when the projected notional / marginUsed > maxLeverage.
C31_LeverageCheck ==
  /\ LeverageWithMargin
  /\ \A a \in CheckArgs :
       (ReachesLeverageCheck(a) /\ ~HasMargin(a)) => Result(a).allowed

\* a reduce-only order on coin, which no check before the cooldown check
\* can reject, as checkOrder answers it now
CooldownProbe(coin, side) ==
  checkOrder([coin |-> coin, side |-> side, size |-> 1, reduceOnly |-> TRUE],
             <<>>, 0, 10)

\* C32: getCooldownRemaining(c) returns max(0, cooldownMs - (now -
\* lastExecution[c])), 0 for an instrument never executed, and is greater
\* than 0 exactly when the cooldown check of checkOrder rejects an order on c.
C32_CooldownRemaining ==
  \A c \in Coins :
    /\ getCooldownRemaining(c) =
         IF execAt[c] = NoTime \/ cooldownMs - (now - execAt[c]) <= 0 THEN 0
         ELSE cooldownMs - (now - execAt[c])
    /\ \A o \in OrderRequest :
         o.coin = c => (getCooldownRemaining(c) > 0 <=> CooldownCheckFails(o))
    /\ \A side \in Sides :
         getCooldownRemaining(c) > 0
           <=> CooldownProbe(c, side) = RiskCheckResult(FALSE, ReasonCooldown)

\* part of the cooldown of one instrument has elapsed while the other
\* instrument was never executed
C32_Witness ==
  \E c, d \in Coins :
    /\ getCooldownRemaining(c) > 0
    /\ getCooldownRemaining(c) < cooldownMs
    /\ ~CooldownProbe(c, "sell").allowed
    /\ execAt[d] = NoTime
    /\ getCooldownRemaining(d) = 0
    /\ CooldownProbe(d, "sell").allowed

\* the cooldown of an executed instrument is over
C32_Elapsed ==
  \E c \in Coins :
    /\ execAt[c] # NoTime /\ cooldownMs > 0
    /\ getCooldownRemaining(c) = 0
    /\ CooldownProbe(c, "buy").allowed

\* the limits of the RiskEngine, by the names of the fields of updateParams'
\* argument
Limits ==
  [maxLeverage |-> maxLeverage, maxTotalNotional |-> maxTotalNotional,
   cooldownMs |-> cooldownMs]
LimitsAfter ==
  [maxLeverage |-> maxLeverage', maxTotalNotional |-> maxTotalNotional',
   cooldownMs |-> cooldownMs']

\* C33: the mutators of the RiskEngine change only their own axis: a step
\* that changes panicMode is a panic call and leaves autoTradingDisabled, the
\* error count, the cooldown timestamps and the limits unchanged;
\* updateParams(params) changes exactly the limits present in params and
\* nothing else; a step that changes a cooldown timestamp changes only the
\* timestamp of one instrument.
C33_MutatorsFrame ==
  [][/\ panicMode' # panicMode =>
          /\ panicMode' = panicAsked'
          /\ UNCHANGED <<autoTradingDisabled, circuitBreaker, lastExecByCoin,
                         maxLeverage, maxTotalNotional, cooldownMs>>
     /\ Limits' # Limits =>
          UNCHANGED <<panicMode, autoTradingDisabled, circuitBreaker, lastExecByCoin>>
     /\ \A params \in RiskParams :
          updateRiskParams(params) =>
            /\ \A f \in DOMAIN Limits :
                 LimitsAfter[f] = IF f \in DOMAIN params THEN params[f] ELSE Limits[f]
            /\ UNCHANGED <<panicMode, autoTradingDisabled, circuitBreaker,
                           lastExecByCoin>>
     /\ lastExecByCoin' # lastExecByCoin =>
          /\ \E coin \in Coins :
               /\ DOMAIN lastExecByCoin' = DOMAIN lastExecByCoin \cup {coin}
               /\ lastExecByCoin'[coin] = now
               /\ execAt'[coin] = now
               /\ \A c \in DOMAIN lastExecByCoin \ {coin} :
                    lastExecByCoin'[c] = lastExecByCoin[c]
          /\ UNCHANGED <<panicMode, autoTradingDisabled, circuitBreaker,
                         maxLeverage, maxTotalNotional, cooldownMs>>
    ]_vars

\* every axis has moved: panic mode is on, the breaker has errors, one
\* instrument has been executed later than the other
C33_Witness ==
  /\ panicMode
  /\ circuitBreaker.errorCount > 0
  /\ DOMAIN lastExecByCoin = Coins
  /\ lastExecByCoin["ETH"] > lastExecByCoin["BTC"]
  /\ cooldownMs = TimeStep

\* the follower's size in the instrument once the order is filled
SizeAfter(currentSize, order) ==
  IF order.side = "buy" THEN currentSize + order.size ELSE currentSize - order.size

\* C34: while panic mode is active or the circuit breaker is tripped, no
\* order that generateOrders produces and checkOrder allows leaves the
\* follower with a larger absolute position in its instrument than before.
C34_NoIncreaseUnderPanic ==
  (Returned("generateAndCheck") /\ (panicMode \/ autoTradingDisabled)) =>
    \A k \in 1..Len(pure.returned[1]) :
      pure.returned[1][k].check.allowed =>
        Abs(SizeAfter(pure.args.target.currentSize, pure.returned[1][k].order))
          <= Abs(pure.args.target.currentSize)

\* under panic, resp. with the breaker tripped, an order through zero to a
\* larger opposite size was allowed
FlipAllowedUnderPanic ==
  /\ Returned("generateAndCheck") /\ panicMode /\ ~autoTradingDisabled
  /\ pure.args.target.currentSize = 2 /\ pure.args.target.targetSize = -4
  /\ Len(pure.returned[1]) = 1
  /\ pure.returned[1][1].check.allowed
FlipAllowedWithBreakerTripped ==
  /\ Returned("generateAndCheck") /\ ~panicMode /\ autoTradingDisabled
  /\ pure.args.target.currentSize = -2 /\ pure.args.target.targetSize = 4
  /\ \E k \in 1..Len(pure.returned[1]) : pure.returned[1][k].check.allowed

\* under panic an opening order and an order that adds to the position are
\* rejected
IncreaseRejectedUnderPanic ==
  (Returned("generateAndCheck") /\ (panicMode \/ autoTradingDisabled)) =>
    \A k \in 1..Len(pure.returned[1]) :
      ~pure.returned[1][k].order.reduceOnly => ~pure.returned[1][k].check.allowed

\* checkOrder returned allowed = true for the order of event e, before e or
\* with it, and the order has a mark price
AllowedBefore(log, k) ==
  /\ \E j \in 1..k :
       /\ <<log[j].batch, log[j].idx>> = <<log[k].batch, log[k].idx>>
       /\ log[j].op = "checkOrder" /\ log[j].text = ""
  /\ \A j \in 1..Len(log) :
       <<log[j].batch, log[j].idx>> = <<log[k].batch, log[k].idx>> =>
         ~IsSkip(log[j]) /\ ~IsRejection(log[j])
  /\ log[k].batch = batches =>
       MarkPriceOf(call.marketData, log[k].order.coin) # 0

\* the step adds entries to the record, the last of which is e
Logged(e) ==
  /\ Len(trace') > Len(trace)
  /\ e = trace'[Len(trace')]

\* C35: placeOrder and recordExecution are invoked for an order only after
\* checkOrder returned allowed = true for that order with a non-zero mark
\* price; an order that is rejected, skipped for a missing price or fails all
\* its attempts leaves the cooldown timestamp of every instrument unchanged.
C35_CheckBeforeExecution ==
  /\ [](\A k \in 1..Len(trace) :
          trace[k].op = "placeOrder" => AllowedBefore(trace, k))
  /\ [][/\ (lastExecByCoin' # lastExecByCoin \/ execAt' # execAt) =>
             /\ Len(trace') = Len(trace) + 1
             /\ IsExecution(trace'[Len(trace')])
             /\ AllowedBefore(trace', Len(trace'))
             /\ trace'[Len(trace')].idx = orderIdx
             /\ lastExecByCoin' =
                  MapSet(lastExecByCoin, call.orders[orderIdx].coin, now)
        /\ \A e \in {trace'[k] : k \in 1..Len(trace')} :
             (Logged(e) /\ (IsSkip(e) \/ IsRejection(e) \/ IsFailure(e))) =>
               UNCHANGED <<lastExecByCoin, execAt>>
       ]_vars

\* the first order of a batch was executed and the second one failed all its
\* attempts: only the instrument of the first has a cooldown timestamp, from
\* before the retries
C35_Witness ==
  /\ Len(trace) >= 2 /\ execPc = "idle" /\ batches = 1
  /\ Len(call.orders) = 2
  /\ call.orders[1].coin # call.orders[2].coin
  /\ ExecutedIdx = {1}
  /\ IsFailure(trace[Len(trace)])
  /\ trace[Len(trace)].op = "placeOrder"
  /\ DOMAIN lastExecByCoin = {call.orders[1].coin}
  /\ lastExecByCoin[call.orders[1].coin] < now

\* an order was skipped for a missing price, resp. rejected, after an
\* execution, and the timestamps are those of the execution
C35_SkippedOrRejected ==
  /\ Len(trace) >= 2 /\ execPc = "idle"
  /\ IsSkip(trace[Len(trace)]) \/ IsRejection(trace[Len(trace)])
  /\ ExecutedIdx = {1}
  /\ DOMAIN lastExecByCoin = {call.orders[1].coin}

\* the pairs of CheckedInCooldown inside one batch
CheckedInCooldownOfBatch ==
  {p \in CheckedInCooldown : trace[p[1]].batch = trace[p[2]].batch}

\* no two orders of one batch on one instrument are executed less than
\* cooldownMs apart
OneExecutionPerCooldown ==
  \A k, l \in 1..Len(trace) :
    (/\ k < l
     /\ IsExecution(trace[k]) /\ IsExecution(trace[l])
     /\ trace[k].batch = trace[l].batch
     /\ trace[k].order.coin = trace[l].order.coin)
      => trace[l].at - trace[k].at >= cooldownMs

\* C36 (amended): within one batch with cooldownMs > 0, once an order on an
\* instrument has been executed, every later order of the batch on the same
\* instrument whose risk check happens less than cooldownMs afterwards is
\* rejected, with a Cooldown reason unless it is not reduce-only and panic
\* mode or the tripped breaker rejects it first; so at most one of the chunks
\* of a target is executed in a batch that completes within cooldownMs.
C36_ChunksInCooldown ==
  cooldownMs > 0 =>
    /\ \A p \in CheckedInCooldownOfBatch :
         /\ IsRejection(trace[p[2]])
         /\ \/ includes(trace[p[2]].text, "Cooldown")
            \/ /\ ~trace[p[2]].order.reduceOnly
               /\ \/ includes(trace[p[2]].text, "PANIC")
                  \/ includes(trace[p[2]].text, "circuit breaker")
    /\ OneExecutionPerCooldown

\* C36 as stated: the later order is rejected with a Cooldown reason
C36_AsStated ==
  cooldownMs > 0 =>
    /\ \A p \in CheckedInCooldownOfBatch :
         IsRejection(trace[p[2]]) /\ includes(trace[p[2]].text, "Cooldown")
    /\ OneExecutionPerCooldown

\* a live batch of two chunks of one target: the first was executed at its
\* second attempt, the second rejected for Cooldown
C36_Witness ==
  /\ ~dryRunLogOnly /\ execPc = "idle" /\ cooldownMs > 0
  /\ Len(call.orders) = 2
  /\ call.orders[1].coin = call.orders[2].coin
  /\ call.orders[1].side = call.orders[2].side
  /\ call.orders[1].reduceOnly = call.orders[2].reduceOnly
  /\ ExecutedIdx = {1}
  /\ result.rejectedOrders = <<[order |-> 2, reason |-> ReasonCooldown]>>
  /\ lastExecByCoin[call.orders[1].coin] > Epoch
  /\ CheckedInCooldownOfBatch # {}

\* C37: an exception thrown inside a tick never stops the polling loop: the
\* loop that awaits the tick is still there, the throw and its catch leave
\* running and enabled unchanged, the loop goes on to its sleep, and at the
\* end of the sleep it fires the next tick as usual.
C37_ExceptionDoesNotStopLoop ==
  /\ [](tick.pc = "threw" => \E l \in LoopIds : loops[l] = "tick")
  /\ [][/\ (tick.pc # "threw" /\ tick'.pc = "threw") =>
             UNCHANGED <<running, enabled, loops>>
        /\ \A l \in LoopIds :
             (tick.pc = "threw" /\ loops[l] = "tick" /\ loops'[l] # "tick") =>
               /\ loops'[l] = "sleep"
               /\ UNCHANGED <<running, enabled>>
        /\ \A l \in LoopIds :
             (tickLog.threw /\ loops[l] = "sleep" /\ loops'[l] # "sleep") =>
               /\ loops'[l] = IF running THEN "tick" ELSE "done"
               /\ running => enabled /\ tick'.pc \in {"leaders", "returned"}
       ]_vars

\* the first tick of the loop threw, and the loop has slept and is executing
\* the orders of a later tick
C37_Witness ==
  /\ tickLog.threw
  /\ running /\ enabled
  /\ loops = [l \in LoopIds |-> IF l = 1 THEN "tick" ELSE "none"]
  /\ tick.pc = "executing"
  /\ result.executedOrders # <<>>

\* C38: after stop(), unless start() is called again, the polling loop
\* terminates: stop() leaves the loop where it is (a tick in flight goes on),
\* the end of the sleep that follows begins no tick and ends the loop, and
\* the promise of start() resolves, for good.
C38_StopTerminatesLoop ==
  /\ \A l \in LoopIds :
       (loops[l] \in {"tick", "sleep"} /\ ~running) ~> (loops[l] = "done" \/ running)
  /\ [][/\ (running /\ ~running') => loops' = loops /\ tick' = tick
        /\ \A l \in LoopIds :
             /\ (~running /\ loops[l] = "sleep" /\ loops'[l] # "sleep") =>
                  loops'[l] = "done" /\ tick' = tick
             /\ (~running /\ loops[l] = "tick" /\ loops'[l] # "tick") =>
                  loops'[l] = "sleep"
             /\ loops[l] = "done" => loops'[l] = "done"
       ]_vars

\* the loop was stopped and its start() has resolved
C38_Witness ==
  /\ ~running /\ enabled
  /\ loops = [l \in LoopIds |-> IF l = 1 THEN "done" ELSE "none"]

(***************************************************************************)
(* The operator's commands (telegram/bot.ts): /on, /off, /panic, /resume   *)
(***************************************************************************)
\* chats that send commands to the bot, and the whitelist
Chats == {"operator", "stranger"}
allowedChatIds == {"operator"}
isAuthorized(chat) == chat \in allowedChatIds

\* what the steps of the bot leave alone apart from the loop and the engine
BotFrame ==
  UNCHANGED <<now, execVars, trace, countersAtCall, returnedCounters, pure, store,
              execAt, errorTimes, resetAt>>
EngineUntouched == UNCHANGED <<engineVars, panicAsked>>

\* loop.disable() as the tick in flight sees it
DisableLoop ==
  /\ disable
  /\ tickLog' = [tickLog EXCEPT !.disabledInFlight =
                   @ \/ tick.pc \notin {"none", "returned", "threw"}]
  /\ UNCHANGED <<tick, previousLeaderPositions>>

\* a command from a chat that is not whitelisted: every handler returns at
\* its first line
Ignored(name, chat) ==
  /\ ~isAuthorized(chat)
  /\ botLog' = [botLog EXCEPT !.last = name, !.authorized = FALSE]
  /\ LoopIdle /\ EngineUntouched /\ BotFrame

\* /on
CommandOn(chat) ==
  /\ isAuthorized(chat)
  /\ enable /\ TickIdle
  /\ botLog' = [last |-> "/on", authorized |-> TRUE, panicked |-> FALSE]
  /\ EngineUntouched /\ BotFrame

\* /off
CommandOff(chat) ==
  /\ isAuthorized(chat)
  /\ DisableLoop
  /\ botLog' = [botLog EXCEPT !.last = "/off", !.authorized = TRUE]
  /\ EngineUntouched /\ BotFrame

\* variant: /panic that leaves auto-copy on
CommandPanic_KeepsAutoCopy(chat) ==
  /\ isAuthorized(chat)
  /\ enablePanicMode /\ panicAsked' = TRUE
  /\ LoopIdle
  /\ botLog' = [last |-> "/panic", authorized |-> TRUE, panicked |-> TRUE]
  /\ BotFrame

\* /panic: handlePanic up to its first await; what follows (getPositions,
\* cancelAllOpenOrders, messages) changes neither the loop nor the engine
CommandPanic(chat) ==
  /\ isAuthorized(chat)
  /\ enablePanicMode /\ panicAsked' = TRUE
  /\ DisableLoop
  /\ botLog' = [last |-> "/panic", authorized |-> TRUE, panicked |-> TRUE]
  /\ BotFrame

\* /resume
CommandResume(chat) ==
  /\ isAuthorized(chat)
  /\ disablePanicMode /\ panicAsked' = FALSE
  /\ LoopIdle
  /\ botLog' = [botLog EXCEPT !.last = "/resume", !.authorized = TRUE]
  /\ BotFrame

\* the loop is started once (index.ts); the operator acts through the bot
NextBot ==
  \/ start /\ MoreBatches /\ IterationBegins /\ UNCHANGED previousLeaderPositions
       /\ TickAlone
  \/ \E name \in {"/on", "/off", "/panic", "/resume"}, chat \in Chats :
       Ignored(name, chat)
  \/ \E chat \in Chats : CommandOn(chat)
  \/ \E chat \in Chats : CommandOff(chat)
  \/ \E chat \in Chats : CommandPanic(chat)
  \/ \E chat \in Chats : CommandResume(chat)
  \/ \E l \in LoopIds :
       /\ TickSettles(l)
       /\ tick.pc \in {"returned", "threw"}
       /\ tick' = NoTick
       /\ UNCHANGED <<previousLeaderPositions, tickLog>>
       /\ TickAlone
  \/ \E l \in LoopIds :
       /\ LoopWakes(l)
       /\ MoreBatches
       /\ IF running THEN IterationBegins ELSE UNCHANGED <<tick, tickLog>>
       /\ UNCHANGED previousLeaderPositions
       /\ TickAlone
  \/ \E positions \in LeaderFetches, failed \in BOOLEAN :
       LeaderFetched(positions, failed) /\ TickAlone
  \/ \E positions \in FollowerFetches, failed \in BOOLEAN :
       FollowerFetched(positions, failed) /\ TickAlone
  \/ FollowerFetchThrows /\ TickAlone
  \/ TickThrows /\ TickAlone
  \/ \E marketData \in TickMarketDatas({tick.targets[k].coin : k \in 1..Len(tick.targets)}) :
       MarketDataFetched(marketData) /\ TickAlone
  \/ \E totalNotional \in Notionals : AccountInfoFetched(totalNotional) /\ Untraced
  \/ ExecutionReturns /\ TickAlone
  \/ RejectByRisk /\ ExecAlone
  \/ ExecuteDryRun /\ ExecAlone
  \/ Submit /\ ExecAlone
  \/ CatchUnexpected /\ ExecAlone
  \/ PlaceOrderSucceeds /\ ExecAlone
  \/ \E error \in {ExchangeError} : PlaceOrderFailsRetry(error) /\ ExecAlone
  \/ \E error \in {ExchangeError} : PlaceOrderFailsLast(error) /\ ExecAlone
  \/ SleepDone /\ ExecAlone
  \/ TimerFires /\ UNCHANGED <<engineVars, observerVars, execVars>> /\ ExecAlone

SpecBot == InitTick /\ [][NextBot]_vars

\* a tick() call begins in this step
TickBegins == tick.pc = "none" /\ tick'.pc # "none"
\* the tick or the executor takes a step
TickWorks == tick' # tick \/ execPc' # execPc \/ result' # result

\* C39: an authorized /panic turns panic mode on and auto-copy off; an
\* authorized /resume clears panic mode and nothing else; from the /panic on
\* the loop stays disabled, and no tick begins, until an authorized /on; a
\* command from a chat that is not whitelisted changes nothing.  (A tick in
\* flight when /panic arrives runs to its end: C39_AsStated.)
C39_PanicResumeOn ==
  /\ [](botLog.panicked => ~enabled)
  /\ [][/\ (botLog' # botLog /\ botLog'.last = "/panic" /\ botLog'.authorized) =>
             panicMode' /\ ~enabled' /\ botLog'.panicked
        /\ (botLog' # botLog /\ botLog'.last = "/resume" /\ botLog'.authorized) =>
             /\ ~panicMode'
             /\ UNCHANGED <<loopVars, maxLeverage, maxTotalNotional, cooldownMs,
                            autoTradingDisabled, lastExecByCoin, circuitBreaker>>
             /\ botLog'.panicked = botLog.panicked
        /\ (botLog.panicked /\ ~botLog'.panicked) =>
             botLog'.last = "/on" /\ botLog'.authorized /\ enabled'
        /\ (botLog' # botLog /\ ~botLog'.authorized) =>
             UNCHANGED <<engineVars, loopVars, execVars>>
        /\ TickBegins => enabled /\ ~botLog.panicked
       ]_vars

\* C39 as worded: between an obeyed /panic and the next /on no tick does
\* any work
C39_AsStated == [][botLog.panicked => ~TickWorks]_vars

\* /panic, then /resume, no /on yet: the loop runs disabled, without a tick
C39_Witness ==
  /\ botLog.panicked /\ botLog.last = "/resume" /\ botLog.authorized
  /\ ~panicMode /\ ~enabled /\ running
  /\ tick.pc = "none" /\ loops[1] = "sleep"
  /\ result.executedOrders # <<>>

\* the tick that was in flight at /panic executes an order after /resume
C39_InFlightTickExecutes ==
  /\ botLog.panicked /\ ~enabled /\ ~panicMode
  /\ tick.pc = "executing" /\ execPc = "placing"

(***************************************************************************)
(* StateStore (store/stateStore.ts): the fields leaders and copyMode, the  *)
(* latter standing for the fields persist() does not reload.  A state file *)
(* is the object JSON.parse returns for it; leaderNicknames, which persist *)
(* treats like leaders, is left out.                                       *)
(***************************************************************************)
\* a state file JSON.parse rejects
Corrupt == [status |-> "SyntaxError", leaders |-> <<>>, copyMode |-> <<>>]
\* the state files: none, unreadable, or an object whose fields may be missing
StateFiles ==
  {NoFile, Corrupt}
    \cup [status : {"ok"}, leaders : Optional(LeaderLists),
          copyMode : Optional(CopyModes)]

\* JSON.stringify(this.state) as JSON.parse reads it back
FileOf(state) ==
  [status |-> "ok", leaders |-> <<state.leaders>>, copyMode |-> <<state.copyMode>>]

\* loadFromDisk: null (<<>>) when the file is missing or unreadable
loadFromDisk(file) == IF file.status = "ok" THEN <<file>> ELSE <<>>

\* a ?? b ?? ...: the first value that is not undefined
Coalesce(options) ==
  LET defined == SelectSeq(options, LAMBDA o : o # <<>>) IN defined[1][1]

\* new StateStore(initialState, stateFile) as index.ts calls it: copyMode is
\* given, leaders is not
StateStoreInit(copyModeDefault, file) ==
  LET loadedState == loadFromDisk(file)
      loaded(key) == IF loadedState = <<>> THEN <<>> ELSE loadedState[1][key]
  IN [state |-> [leaders |-> Coalesce(<<<<>>, loaded("leaders"), <<<<>>>>>>),
                 copyMode |-> Coalesce(<<<<copyModeDefault>>, loaded("copyMode"),
                                         <<"entry-only">>>>)],
      persistEnabled |-> TRUE,
      file |-> file,
      lastSet |-> NoSet]

\* persist(): this.state and the file afterwards; writeFails is writeFileSync
\* throwing (caught).  existingState.leaders || this.state.leaders: every
\* array is truthy, the empty one too
persist(st, writeFails) ==
  IF ~st.persistEnabled THEN st
  ELSE LET existingState == loadFromDisk(st.file)
           reloaded ==
             IF existingState # <<>> /\ existingState[1].leaders # <<>>
               THEN [st.state EXCEPT !.leaders = existingState[1].leaders[1]]
               ELSE st.state
       IN [st EXCEPT !.state = reloaded,
                     !.file = IF writeFails THEN @ ELSE FileOf(reloaded)]

\* set(key, value)
set(key, value, writeFails) ==
  /\ store' = [persist([store EXCEPT !.state[key] = value], writeFails)
                 EXCEPT !.lastSet = [[NoSet EXCEPT ![key] = value]
                                       EXCEPT !.key = key,
                                              !.written = store.persistEnabled
                                                            /\ ~writeFails]]
  /\ UNCHANGED <<now, engineVars, observerVars, execVars, loopVars, trace,
                 countersAtCall, returnedCounters, pure, botLog>>

\* get(key)
get(st, key) == st.state[key]

\* disablePersistence()
disablePersistence ==
  /\ store.persistEnabled
  /\ store' = [store EXCEPT !.persistEnabled = FALSE]
  /\ UNCHANGED <<now, engineVars, observerVars, execVars, loopVars, trace,
                 countersAtCall, returnedCounters, pure, botLog>>

\* the state file is edited, replaced or removed by somebody else
FileChangedOutside(file) ==
  /\ file # store.file
  /\ store' = [store EXCEPT !.file = file]
  /\ UNCHANGED <<now, engineVars, observerVars, execVars, loopVars, trace,
                 countersAtCall, returnedCounters, pure, botLog>>

InitStore ==
  /\ now = Epoch
  /\ RiskEngineInit
  /\ maxLeverage = 5 /\ maxTotalNotional = 30 /\ cooldownMs = 0
  /\ ExecutorInit
  /\ LoopInit
  /\ execAt = [c \in Coins |-> NoTime]
  /\ panicAsked = FALSE
  /\ errorTimes = <<>>
  /\ resetAt = now
  /\ trace = <<>>
  /\ countersAtCall = <<>>
  /\ returnedCounters = [ref |-> "none", value |-> ZeroCounters]
  /\ pure = NoCall
  /\ botLog = NoCommand
  /\ \E copyModeDefault \in CopyModes, file \in StateFiles :
       store = StateStoreInit(copyModeDefault, file)

NextStore ==
  \/ \E value \in LeaderLists, writeFails \in BOOLEAN : set("leaders", value, writeFails)
  \/ \E value \in CopyModes, writeFails \in BOOLEAN : set("copyMode", value, writeFails)
  \/ disablePersistence
  \/ \E file \in StateFiles : FileChangedOutside(file)

SpecStore == InitStore /\ [][NextStore]_vars

\* this step is a set(key, ...) call
SetCalled(key) == store'.lastSet # store.lastSet /\ store'.lastSet.key = key

\* C40: after set('leaders', L), get('leaders') is L and, when the file was
\* written, the state file holds L, whatever state file existed before
C40_SetLeaders ==
  [][SetCalled("leaders") =>
       /\ get(store', "leaders") = store'.lastSet.leaders
       /\ store'.lastSet.written => store'.file.leaders = <<store'.lastSet.leaders>>
    ]_vars

\* what holds instead: set('leaders', L) stores L exactly when persistence is
\* off or no readable state file with a leaders field exists; otherwise the
\* list of the file comes back, in memory and on disk
SetLeadersKeepsFile ==
  [][SetCalled("leaders") =>
       LET kept == /\ store.persistEnabled /\ store.file.status = "ok"
                   /\ store.file.leaders # <<>>
       IN /\ get(store', "leaders") =
               IF kept THEN store.file.leaders[1] ELSE store'.lastSet.leaders
          /\ store'.lastSet.written => store'.file.leaders = <<get(store', "leaders")>>
    ]_vars

\* the fields persist() does not reload are stored as the claim says
SetCopyMode ==
  [][SetCalled("copyMode") =>
       /\ get(store', "copyMode") = store'.lastSet.copyMode
       /\ store'.lastSet.written => store'.file.copyMode = <<store'.lastSet.copyMode>>
    ]_vars

\* a set('leaders', L) that was undone by the state file
SetLeadersUndone ==
  /\ store.lastSet.key = "leaders" /\ store.lastSet.written
  /\ store.lastSet.leaders = <<"leader1", "leader2">>
  /\ get(store, "leaders") = <<"leader1">>
  /\ store.file.leaders = <<<<"leader1">>>>

====
